---- MODULE Spec2Model ----
(***************************************************************************)
(* Search engine of howtomgr.github.io: the keyword thesaurus, the fuzzy   *)
(* matcher, the relevance scorer, the search index and the search manager  *)
(* (lib/search-keywords.js), the Levenshtein distance of the search box    *)
(* (components/SearchBox.js), and the sessions of the two search boxes     *)
(* (components/SearchBox.js, components/SimpleSearch.js): the debounce     *)
(* timeout, the scoring pass and the keyboard.                             *)
(*                                                                         *)
(* Strings are sequences of one-character strings.  Scores are exact       *)
(* rationals [n, d] in lowest terms (the code uses IEEE doubles; rounding  *)
(* of the decimal constants is not modelled).                              *)
(***************************************************************************)
EXTENDS Integers, Sequences, FiniteSets, TLC

VARIABLES
  items,          \* the catalog handed to FuzzySearch / SearchManager.setData
  searchData,     \* SearchManager.searchData
  searchIndex,    \* SearchManager.searchIndex
  currentQuery,   \* SearchManager.currentQuery
  selectedIndex,  \* SearchManager.selectedIndex
  op,             \* the operation that ran last
  arg,            \* its arguments
  ret,            \* its return value
  prev,           \* [op, arg, ret, data] of the operation before it
  box,            \* one mounted search box: its props, its useState cells, the
                  \* timeouts of its debounce effect and what its last step did
  analytics       \* one SearchAnalytics: searches, popularTerms, and the
                  \* trackSearch calls made on it so far

vars == <<items, searchData, searchIndex, currentQuery, selectedIndex, op, arg, ret, prev, box,
          analytics>>

----------------------------------------------------------------------------
(* Bounds *)

\* longest catalog drawn from the pool of entries
MaxCatalog == 2
\* longest string handed to levenshteinDistance
MaxLevLen == 3
\* most blanks put around a term handed to expandSearchQuery
MaxPad == 1

----------------------------------------------------------------------------
(* JavaScript string primitives *)

UpperCase == <<"A","B","C","D","E","F","G","H","I","J","K","L","M","N","O","P","Q","R","S","T","U","V","W","X","Y","Z">>

LowerCase == <<"a","b","c","d","e","f","g","h","i","j","k","l","m","n","o","p","q","r","s","t","u","v","w","x","y","z">>

Digits == {"0","1","2","3","4","5","6","7","8","9"}

WhiteSpace == {" ", "\t", "\n"}

\* the characters \w of a regular expression
WordChars ==
  {UpperCase[i] : i \in 1..26} \cup {LowerCase[i] : i \in 1..26} \cup Digits \cup {"_"}

IsWordChar(c) == c \in WordChars

\* the lower-case letter of every upper-case letter
LowerOf == [c \in {UpperCase[i] : i \in 1..26} |->
              LowerCase[CHOOSE i \in 1..26 : UpperCase[i] = c]]

ToLowerChar(c) == IF c \in DOMAIN LowerOf THEN LowerOf[c] ELSE c

\* String.prototype.toLowerCase
ToLowerCase(s) == [i \in 1..Len(s) |-> ToLowerChar(s[i])]

RECURSIVE TrimStart(_)
TrimStart(s) ==
  IF s # <<>> /\ Head(s) \in WhiteSpace THEN TrimStart(Tail(s)) ELSE s

RECURSIVE TrimEnd(_)
TrimEnd(s) ==
  IF s # <<>> /\ s[Len(s)] \in WhiteSpace THEN TrimEnd(SubSeq(s, 1, Len(s) - 1)) ELSE s

\* String.prototype.trim
Trim(s) == TrimEnd(TrimStart(s))

\* text.slice(from, to) for 0 <= from, 0 <= to (indices are clamped to the length)
Slice(text, from, to) ==
  LET f == IF from > Len(text) THEN Len(text) ELSE from
      t == IF to > Len(text) THEN Len(text) ELSE to
  IN IF f >= t THEN <<>> ELSE SubSeq(text, f + 1, t)

\* the 0-based positions at which q occurs in text
Occurrences(text, q) ==
  {i \in 0..(Len(text) - Len(q)) : SubSeq(text, i + 1, i + Len(q)) = q}

\* the smallest element of a non-empty set of numbers
Least(S) == CHOOSE x \in S : \A y \in S : x <= y

\* String.prototype.includes
Includes(text, q) == Occurrences(text, q) # {}

\* String.prototype.indexOf
IndexOf(text, q) ==
  IF Occurrences(text, q) = {} THEN -1 ELSE Least(Occurrences(text, q))

\* String.prototype.startsWith
StartsWith(text, q) == Len(q) <= Len(text) /\ SubSeq(text, 1, Len(q)) = q

\* the elements of a finite set of numbers in ascending order
SortedSeq(S) ==
  [k \in 1..Cardinality(S) |-> CHOOSE x \in S : Cardinality({y \in S : y < x}) = k - 1]

\* the 1-based positions where a run of characters outside seps starts
PieceStarts(text, seps) ==
  {i \in 1..Len(text) : text[i] \notin seps /\ (i = 1 \/ text[i - 1] \in seps)}

\* the last position of the run that starts at s
PieceEnd(text, seps, s) ==
  CHOOSE j \in s..Len(text) :
    /\ \A k \in s..j : text[k] \notin seps
    /\ j = Len(text) \/ text[j + 1] \in seps

\* text.split(re) for a regular expression re matching a maximal run of
\* characters of seps: the runs of other characters in order, an empty piece
\* before a leading and after a trailing run of seps, and one empty piece for
\* the empty text
SplitRuns(text, seps) ==
  LET starts == SortedSeq(PieceStarts(text, seps))
      pieces == [k \in 1..Len(starts) |->
                   SubSeq(text, starts[k], PieceEnd(text, seps, starts[k]))]
      leading == IF text = <<>> \/ text[1] \in seps THEN << <<>> >> ELSE <<>>
      trailing == IF text # <<>> /\ text[Len(text)] \in seps THEN << <<>> >> ELSE <<>>
  IN leading \o pieces \o trailing

\* text.split(/\s+/)
SplitWhiteSpace(text) == SplitRuns(text, WhiteSpace)

\* Array.prototype.join(' ')
RECURSIVE JoinSpace(_)
JoinSpace(parts) ==
  IF parts = <<>> THEN <<>>
  ELSE IF Len(parts) = 1 THEN parts[1]
  ELSE parts[1] \o <<" ">> \o JoinSpace(Tail(parts))

\* Array.prototype.filter(Boolean) on strings: the empty string is falsy
FilterBoolean(parts) == SelectSeq(parts, LAMBDA p : p # <<>>)

\* membership in an array
Contains(seq, x) == \E i \in 1..Len(seq) : seq[i] = x

----------------------------------------------------------------------------
(* Exact rational arithmetic for the scores *)

RECURSIVE GCD(_, _)
GCD(a, b) == IF b = 0 THEN a ELSE GCD(b, a % b)

\* the rational n/d (d > 0, n >= 0) in lowest terms
R(n, d) == LET g == GCD(n, d) IN [n |-> n \div g, d |-> d \div g]

RAdd(a, b) == R(a.n * b.d + b.n * a.d, a.d * b.d)

RMul(a, b) == R(a.n * b.n, a.d * b.d)

RLess(a, b) == a.n * b.d < b.n * a.d

RLeq(a, b) == a.n * b.d <= b.n * a.d

RMin(a, b) == IF RLess(b, a) THEN b ELSE a

RMax(a, b) == IF RLess(a, b) THEN b ELSE a

Zero == R(0, 1)

----------------------------------------------------------------------------
(* Keyword thesaurus (lib/search-keywords.js) *)

SEARCH_KEYWORDS ==
  <<
    \* kubectl -> kubernetes, k8s
    [keyword |-> <<"k","u","b","e","c","t","l">>, aliases |-> << <<"k","u","b","e","r","n","e","t","e","s">>, <<"k","8","s">> >>],
    \* k8s -> kubernetes, kubectl
    [keyword |-> <<"k","8","s">>, aliases |-> << <<"k","u","b","e","r","n","e","t","e","s">>, <<"k","u","b","e","c","t","l">> >>],
    \* kubernetes -> kubectl, k8s, container, orchestration
    [keyword |-> <<"k","u","b","e","r","n","e","t","e","s">>, aliases |-> << <<"k","u","b","e","c","t","l">>, <<"k","8","s">>, <<"c","o","n","t","a","i","n","e","r">>, <<"o","r","c","h","e","s","t","r","a","t","i","o","n">> >>],
    \* docker -> container, containerization
    [keyword |-> <<"d","o","c","k","e","r">>, aliases |-> << <<"c","o","n","t","a","i","n","e","r">>, <<"c","o","n","t","a","i","n","e","r","i","z","a","t","i","o","n">> >>],
    \* containers -> docker, kubernetes, k8s, podman
    [keyword |-> <<"c","o","n","t","a","i","n","e","r","s">>, aliases |-> << <<"d","o","c","k","e","r">>, <<"k","u","b","e","r","n","e","t","e","s">>, <<"k","8","s">>, <<"p","o","d","m","a","n">> >>],
    \* nginx -> web server, reverse proxy, load balancer, http
    [keyword |-> <<"n","g","i","n","x">>, aliases |-> << <<"w","e","b"," ","s","e","r","v","e","r">>, <<"r","e","v","e","r","s","e"," ","p","r","o","x","y">>, <<"l","o","a","d"," ","b","a","l","a","n","c","e","r">>, <<"h","t","t","p">> >>],
    \* apache -> web server, http server, httpd
    [keyword |-> <<"a","p","a","c","h","e">>, aliases |-> << <<"w","e","b"," ","s","e","r","v","e","r">>, <<"h","t","t","p"," ","s","e","r","v","e","r">>, <<"h","t","t","p","d">> >>],
    \* web server -> nginx, apache, haproxy, traefik, caddy
    [keyword |-> <<"w","e","b"," ","s","e","r","v","e","r">>, aliases |-> << <<"n","g","i","n","x">>, <<"a","p","a","c","h","e">>, <<"h","a","p","r","o","x","y">>, <<"t","r","a","e","f","i","k">>, <<"c","a","d","d","y">> >>],
    \* reverse proxy -> nginx, haproxy, traefik
    [keyword |-> <<"r","e","v","e","r","s","e"," ","p","r","o","x","y">>, aliases |-> << <<"n","g","i","n","x">>, <<"h","a","p","r","o","x","y">>, <<"t","r","a","e","f","i","k">> >>],
    \* load balancer -> nginx, haproxy, traefik
    [keyword |-> <<"l","o","a","d"," ","b","a","l","a","n","c","e","r">>, aliases |-> << <<"n","g","i","n","x">>, <<"h","a","p","r","o","x","y">>, <<"t","r","a","e","f","i","k">> >>],
    \* postgres -> postgresql
    [keyword |-> <<"p","o","s","t","g","r","e","s">>, aliases |-> << <<"p","o","s","t","g","r","e","s","q","l">> >>],
    \* postgresql -> postgres, sql, database
    [keyword |-> <<"p","o","s","t","g","r","e","s","q","l">>, aliases |-> << <<"p","o","s","t","g","r","e","s">>, <<"s","q","l">>, <<"d","a","t","a","b","a","s","e">> >>],
    \* mysql -> mariadb, sql, database
    [keyword |-> <<"m","y","s","q","l">>, aliases |-> << <<"m","a","r","i","a","d","b">>, <<"s","q","l">>, <<"d","a","t","a","b","a","s","e">> >>],
    \* mariadb -> mysql, sql, database
    [keyword |-> <<"m","a","r","i","a","d","b">>, aliases |-> << <<"m","y","s","q","l">>, <<"s","q","l">>, <<"d","a","t","a","b","a","s","e">> >>],
    \* mongodb -> mongo, nosql, database
    [keyword |-> <<"m","o","n","g","o","d","b">>, aliases |-> << <<"m","o","n","g","o">>, <<"n","o","s","q","l">>, <<"d","a","t","a","b","a","s","e">> >>],
    \* mongo -> mongodb
    [keyword |-> <<"m","o","n","g","o">>, aliases |-> << <<"m","o","n","g","o","d","b">> >>],
    \* redis -> cache, key-value, database
    [keyword |-> <<"r","e","d","i","s">>, aliases |-> << <<"c","a","c","h","e">>, <<"k","e","y","-","v","a","l","u","e">>, <<"d","a","t","a","b","a","s","e">> >>],
    \* database -> mysql, postgresql, mongodb, redis, sql, nosql
    [keyword |-> <<"d","a","t","a","b","a","s","e">>, aliases |-> << <<"m","y","s","q","l">>, <<"p","o","s","t","g","r","e","s","q","l">>, <<"m","o","n","g","o","d","b">>, <<"r","e","d","i","s">>, <<"s","q","l">>, <<"n","o","s","q","l">> >>],
    \* sql -> mysql, postgresql, mariadb
    [keyword |-> <<"s","q","l">>, aliases |-> << <<"m","y","s","q","l">>, <<"p","o","s","t","g","r","e","s","q","l">>, <<"m","a","r","i","a","d","b">> >>],
    \* nosql -> mongodb, redis
    [keyword |-> <<"n","o","s","q","l">>, aliases |-> << <<"m","o","n","g","o","d","b">>, <<"r","e","d","i","s">> >>],
    \* authentication -> keycloak, authelia, auth
    [keyword |-> <<"a","u","t","h","e","n","t","i","c","a","t","i","o","n">>, aliases |-> << <<"k","e","y","c","l","o","a","k">>, <<"a","u","t","h","e","l","i","a">>, <<"a","u","t","h">> >>],
    \* auth -> keycloak, authelia, authentication
    [keyword |-> <<"a","u","t","h">>, aliases |-> << <<"k","e","y","c","l","o","a","k">>, <<"a","u","t","h","e","l","i","a">>, <<"a","u","t","h","e","n","t","i","c","a","t","i","o","n">> >>],
    \* vpn -> wireguard, openvpn
    [keyword |-> <<"v","p","n">>, aliases |-> << <<"w","i","r","e","g","u","a","r","d">>, <<"o","p","e","n","v","p","n">> >>],
    \* firewall -> fail2ban, security
    [keyword |-> <<"f","i","r","e","w","a","l","l">>, aliases |-> << <<"f","a","i","l","2","b","a","n">>, <<"s","e","c","u","r","i","t","y">> >>],
    \* secrets -> vault, security
    [keyword |-> <<"s","e","c","r","e","t","s">>, aliases |-> << <<"v","a","u","l","t">>, <<"s","e","c","u","r","i","t","y">> >>],
    \* vault -> secrets, hashicorp, security
    [keyword |-> <<"v","a","u","l","t">>, aliases |-> << <<"s","e","c","r","e","t","s">>, <<"h","a","s","h","i","c","o","r","p">>, <<"s","e","c","u","r","i","t","y">> >>],
    \* metrics -> prometheus, grafana, monitoring
    [keyword |-> <<"m","e","t","r","i","c","s">>, aliases |-> << <<"p","r","o","m","e","t","h","e","u","s">>, <<"g","r","a","f","a","n","a">>, <<"m","o","n","i","t","o","r","i","n","g">> >>],
    \* monitoring -> prometheus, grafana, nagios, zabbix
    [keyword |-> <<"m","o","n","i","t","o","r","i","n","g">>, aliases |-> << <<"p","r","o","m","e","t","h","e","u","s">>, <<"g","r","a","f","a","n","a">>, <<"n","a","g","i","o","s">>, <<"z","a","b","b","i","x">> >>],
    \* dashboards -> grafana, monitoring
    [keyword |-> <<"d","a","s","h","b","o","a","r","d","s">>, aliases |-> << <<"g","r","a","f","a","n","a">>, <<"m","o","n","i","t","o","r","i","n","g">> >>],
    \* alerting -> prometheus, grafana, monitoring
    [keyword |-> <<"a","l","e","r","t","i","n","g">>, aliases |-> << <<"p","r","o","m","e","t","h","e","u","s">>, <<"g","r","a","f","a","n","a">>, <<"m","o","n","i","t","o","r","i","n","g">> >>],
    \* chat -> mattermost, rocketchat, matrix, communication
    [keyword |-> <<"c","h","a","t">>, aliases |-> << <<"m","a","t","t","e","r","m","o","s","t">>, <<"r","o","c","k","e","t","c","h","a","t">>, <<"m","a","t","r","i","x">>, <<"c","o","m","m","u","n","i","c","a","t","i","o","n">> >>],
    \* slack -> mattermost, rocketchat
    [keyword |-> <<"s","l","a","c","k">>, aliases |-> << <<"m","a","t","t","e","r","m","o","s","t">>, <<"r","o","c","k","e","t","c","h","a","t">> >>],
    \* teams -> mattermost, rocketchat
    [keyword |-> <<"t","e","a","m","s">>, aliases |-> << <<"m","a","t","t","e","r","m","o","s","t">>, <<"r","o","c","k","e","t","c","h","a","t">> >>],
    \* video -> jitsi, communication
    [keyword |-> <<"v","i","d","e","o">>, aliases |-> << <<"j","i","t","s","i">>, <<"c","o","m","m","u","n","i","c","a","t","i","o","n">> >>],
    \* conference -> jitsi, communication
    [keyword |-> <<"c","o","n","f","e","r","e","n","c","e">>, aliases |-> << <<"j","i","t","s","i">>, <<"c","o","m","m","u","n","i","c","a","t","i","o","n">> >>],
    \* streaming -> plex, jellyfin, media
    [keyword |-> <<"s","t","r","e","a","m","i","n","g">>, aliases |-> << <<"p","l","e","x">>, <<"j","e","l","l","y","f","i","n">>, <<"m","e","d","i","a">> >>],
    \* movies -> plex, jellyfin, radarr, media
    [keyword |-> <<"m","o","v","i","e","s">>, aliases |-> << <<"p","l","e","x">>, <<"j","e","l","l","y","f","i","n">>, <<"r","a","d","a","r","r">>, <<"m","e","d","i","a">> >>],
    \* tv -> plex, jellyfin, sonarr, media
    [keyword |-> <<"t","v">>, aliases |-> << <<"p","l","e","x">>, <<"j","e","l","l","y","f","i","n">>, <<"s","o","n","a","r","r">>, <<"m","e","d","i","a">> >>],
    \* music -> plex, jellyfin, lidarr, media
    [keyword |-> <<"m","u","s","i","c">>, aliases |-> << <<"p","l","e","x">>, <<"j","e","l","l","y","f","i","n">>, <<"l","i","d","a","r","r">>, <<"m","e","d","i","a">> >>],
    \* media server -> plex, jellyfin
    [keyword |-> <<"m","e","d","i","a"," ","s","e","r","v","e","r">>, aliases |-> << <<"p","l","e","x">>, <<"j","e","l","l","y","f","i","n">> >>],
    \* cms -> wordpress, drupal, ghost
    [keyword |-> <<"c","m","s">>, aliases |-> << <<"w","o","r","d","p","r","e","s","s">>, <<"d","r","u","p","a","l">>, <<"g","h","o","s","t">> >>],
    \* blog -> wordpress, ghost
    [keyword |-> <<"b","l","o","g">>, aliases |-> << <<"w","o","r","d","p","r","e","s","s">>, <<"g","h","o","s","t">> >>],
    \* wiki -> bookstack, outline
    [keyword |-> <<"w","i","k","i">>, aliases |-> << <<"b","o","o","k","s","t","a","c","k">>, <<"o","u","t","l","i","n","e">> >>],
    \* notes -> bookstack, outline
    [keyword |-> <<"n","o","t","e","s">>, aliases |-> << <<"b","o","o","k","s","t","a","c","k">>, <<"o","u","t","l","i","n","e">> >>],
    \* files -> nextcloud, owncloud
    [keyword |-> <<"f","i","l","e","s">>, aliases |-> << <<"n","e","x","t","c","l","o","u","d">>, <<"o","w","n","c","l","o","u","d">> >>],
    \* cloud storage -> nextcloud, owncloud
    [keyword |-> <<"c","l","o","u","d"," ","s","t","o","r","a","g","e">>, aliases |-> << <<"n","e","x","t","c","l","o","u","d">>, <<"o","w","n","c","l","o","u","d">> >>],
    \* automation -> ansible, terraform
    [keyword |-> <<"a","u","t","o","m","a","t","i","o","n">>, aliases |-> << <<"a","n","s","i","b","l","e">>, <<"t","e","r","r","a","f","o","r","m">> >>],
    \* infrastructure as code -> terraform, ansible
    [keyword |-> <<"i","n","f","r","a","s","t","r","u","c","t","u","r","e"," ","a","s"," ","c","o","d","e">>, aliases |-> << <<"t","e","r","r","a","f","o","r","m">>, <<"a","n","s","i","b","l","e">> >>],
    \* iac -> terraform, ansible
    [keyword |-> <<"i","a","c">>, aliases |-> << <<"t","e","r","r","a","f","o","r","m">>, <<"a","n","s","i","b","l","e">> >>],
    \* ci/cd -> gitlab, jenkins
    [keyword |-> <<"c","i","/","c","d">>, aliases |-> << <<"g","i","t","l","a","b">>, <<"j","e","n","k","i","n","s">> >>],
    \* continuous integration -> gitlab, jenkins
    [keyword |-> <<"c","o","n","t","i","n","u","o","u","s"," ","i","n","t","e","g","r","a","t","i","o","n">>, aliases |-> << <<"g","i","t","l","a","b">>, <<"j","e","n","k","i","n","s">> >>],
    \* git -> gitlab, gitea
    [keyword |-> <<"g","i","t">>, aliases |-> << <<"g","i","t","l","a","b">>, <<"g","i","t","e","a">> >>],
    \* repository -> gitlab, gitea
    [keyword |-> <<"r","e","p","o","s","i","t","o","r","y">>, aliases |-> << <<"g","i","t","l","a","b">>, <<"g","i","t","e","a">> >>],
    \* k8 -> kubernetes
    [keyword |-> <<"k","8">>, aliases |-> << <<"k","u","b","e","r","n","e","t","e","s">> >>],
    \* tf -> terraform
    [keyword |-> <<"t","f">>, aliases |-> << <<"t","e","r","r","a","f","o","r","m">> >>],
    \* pg -> postgresql
    [keyword |-> <<"p","g">>, aliases |-> << <<"p","o","s","t","g","r","e","s","q","l">> >>],
    \* db -> database
    [keyword |-> <<"d","b">>, aliases |-> << <<"d","a","t","a","b","a","s","e">> >>],
    \* lb -> load balancer
    [keyword |-> <<"l","b">>, aliases |-> << <<"l","o","a","d"," ","b","a","l","a","n","c","e","r">> >>],
    \* rp -> reverse proxy
    [keyword |-> <<"r","p">>, aliases |-> << <<"r","e","v","e","r","s","e"," ","p","r","o","x","y">> >>]
  >>

\* Set.prototype.add on a set kept in insertion order
SetAdd(seq, x) == IF Contains(seq, x) THEN seq ELSE Append(seq, x)

RECURSIVE SetAddAll(_, _)
SetAddAll(seq, xs) ==
  IF xs = <<>> THEN seq ELSE SetAddAll(SetAdd(seq, Head(xs)), Tail(xs))

\* table[key] for a table of keyword entries: the aliases of the key, <<>>
\* when the table has no such key (undefined)
AliasesIn(table, key) ==
  IF \E i \in 1..Len(table) : table[i].keyword = key
  THEN table[CHOOSE i \in 1..Len(table) : table[i].keyword = key].aliases
  ELSE <<>>

\* SEARCH_KEYWORDS[normalizedQuery]
DirectAliases(normalizedQuery) == AliasesIn(SEARCH_KEYWORDS, normalizedQuery)

\* the entries of SEARCH_KEYWORDS whose key contains the term or is contained
\* in it, in the order of Object.entries
PartialEntries(normalizedQuery) ==
  SelectSeq(SEARCH_KEYWORDS,
            LAMBDA e : Includes(e.keyword, normalizedQuery) \/ Includes(normalizedQuery, e.keyword))

\* the loop over Object.entries(SEARCH_KEYWORDS): the key and the aliases of
\* every entry of entries are added
RECURSIVE PartialMatches(_, _)
PartialMatches(entries, expandedTerms) ==
  IF entries = <<>> THEN expandedTerms
  ELSE PartialMatches(Tail(entries),
                      SetAddAll(SetAdd(expandedTerms, Head(entries).keyword),
                                Head(entries).aliases))

\* the loop that adds the aliases of the entries and not their keys
RECURSIVE PartialAliases(_, _)
PartialAliases(entries, expandedTerms) ==
  IF entries = <<>> THEN expandedTerms
  ELSE PartialAliases(Tail(entries), SetAddAll(expandedTerms, Head(entries).aliases))

\* the partial scan with that loop
AddPartialMatchesAliasesOnly(normalizedQuery, expandedTerms) ==
  IF Len(normalizedQuery) > 3
  THEN PartialAliases(PartialEntries(normalizedQuery), expandedTerms)
  ELSE expandedTerms

\* the part of expandSearchQuery after the direct matches: the partial
\* matches are added for a term longer than 3 characters
AddPartialMatches(normalizedQuery, expandedTerms) ==
  IF Len(normalizedQuery) > 3
  THEN PartialMatches(PartialEntries(normalizedQuery), expandedTerms)
  ELSE expandedTerms

\* expandSearchQuery from the normalized term on: the term itself, then its
\* direct matches, then the partial matches
ExpandNormalized(normalizedQuery) ==
  AddPartialMatches(normalizedQuery,
                    SetAddAll(<<normalizedQuery>>, DirectAliases(normalizedQuery)))

\* a plausible slip: the aliases of a key are looked up for long terms only
ExpandSearchQueryLongOnly(query) ==
  IF Len(Trim(ToLowerCase(query))) > 3
  THEN ExpandNormalized(Trim(ToLowerCase(query)))
  ELSE <<Trim(ToLowerCase(query))>>

\* a plausible slip: the result is built from the aliases alone
ExpandSearchQueryNoSelf(query) ==
  AddPartialMatches(Trim(ToLowerCase(query)),
                    SetAddAll(<<>>, DirectAliases(Trim(ToLowerCase(query)))))

\* expandSearchQuery(query)
ExpandSearchQuery(query) == ExpandNormalized(Trim(ToLowerCase(query)))

----------------------------------------------------------------------------
(* Relevance scorer: calculateSearchScore *)

\* the text calculateSearchScore searches: the fields and topics that are
\* not empty, joined by blanks, lowercased
ScoreSearchableText(item) ==
  ToLowerCase(JoinSpace(FilterBoolean(
    <<item.name, item.displayName, item.description, item.category, item.language>>
      \o item.topics)))

\* the steps of calculateSearchScore on the searchable text: 1.0 for the
\* query, 0.7 for each expanded term, 0.5 for each word holding the query,
\* 0.8 for the query in name or displayName, 0.1 for more than 10 stars; the
\* sum is capped at 2.0
ScoreOfText(item, q, expandedTerms, searchableText) ==
  RMin(
    RAdd(RAdd(RAdd(RAdd(
      IF Includes(searchableText, q) THEN R(1, 1) ELSE Zero,
      RMul(R(7, 10),
           R(Len(SelectSeq(expandedTerms, LAMBDA term : Includes(searchableText, term))), 1))),
      RMul(R(5, 10),
           R(Len(SelectSeq(SplitWhiteSpace(searchableText), LAMBDA word : Includes(word, q))), 1))),
      IF Includes(ToLowerCase(item.name), q) \/ Includes(ToLowerCase(item.displayName), q)
      THEN R(8, 10) ELSE Zero),
      IF item.stars > 10 THEN R(1, 10) ELSE Zero),
    R(2, 1))

\* calculateSearchScore(item, query, expandedTerms)
CalculateSearchScore(item, query, expandedTerms) ==
  ScoreOfText(item, ToLowerCase(query), expandedTerms, ScoreSearchableText(item))

----------------------------------------------------------------------------
(* Fuzzy matcher: FuzzySearch.fuzzyMatch and its tiers *)

\* options.distance || 100
distance == 100

\* options.threshold || 0.3
threshold == R(3, 10)

\* options.keys || ['name', 'displayName', 'description']
keys == <<"name", "displayName", "description">>

NoMatch == [score |-> Zero, matches |-> <<>>]

\* the assertion \b at the 0-based position p of text
WordBoundaryAt(text, p) ==
  LET before == p >= 1 /\ IsWordChar(text[p])
      after == p < Len(text) /\ IsWordChar(text[p + 1])
  IN before # after

\* the positions where /\b<query>/i matches text
WordBoundaryMatches(query, text) ==
  {p \in 0..(Len(text) - Len(query)) :
     /\ WordBoundaryAt(text, p)
     /\ ToLowerCase(SubSeq(text, p + 1, p + Len(query))) = ToLowerCase(query)}

\* /\s|-|_/.test(c)
IsBoundaryChar(c) == c \in WhiteSpace \/ c = "-" \/ c = "_"

\* FuzzySearch.mergeConsecutiveMatches: the loop from matches[i] on
RECURSIVE MergeFrom(_, _, _, _)
MergeFrom(matches, i, current, merged) ==
  IF i > Len(matches) THEN Append(merged, current)
  ELSE IF matches[i].start = current.end
       THEN MergeFrom(matches, i + 1, [current EXCEPT !.end = matches[i].end], merged)
       ELSE MergeFrom(matches, i + 1, matches[i], Append(merged, current))

\* FuzzySearch.mergeConsecutiveMatches(matches)
MergeConsecutiveMatches(matches) ==
  IF Len(matches) <= 1 THEN matches
  ELSE MergeFrom(matches, 2, matches[1], <<>>)

\* the 0-based positions from textIndex on where text holds the character c
PositionsFrom(text, textIndex, c) ==
  {t \in textIndex..(Len(text) - 1) : text[t + 1] = c}

\* the body of "if (text[textIndex] === query[queryIndex])" of
\* fuzzyCharacterMatch at the position textIndex; st holds score, matches,
\* queryIndex, lastMatchIndex and consecutiveMatches, and consecutive is
\* textIndex === lastMatchIndex + 1
MatchCharacter(query, text, textIndex, st, consecutive) ==
  [score |->
     RAdd(RAdd(RAdd(st.score,
       IF consecutive THEN R(10 + 5 * (st.consecutiveMatches + 1), 100) ELSE Zero),
       R(8, 10 * Len(query))),
       IF textIndex = 0 \/ IsBoundaryChar(text[textIndex]) THEN R(1, 10) ELSE Zero),
   matches |-> Append(st.matches,
                 [start |-> textIndex, end |-> textIndex + 1,
                  queryIndex |-> st.queryIndex, matchType |-> "character"]),
   queryIndex |-> st.queryIndex + 1,
   lastMatchIndex |-> textIndex,
   consecutiveMatches |-> IF consecutive THEN st.consecutiveMatches + 1 ELSE 0]

\* the loop of fuzzyCharacterMatch from textIndex on (0-based), taken from
\* one matching position to the next: found holds the positions from
\* textIndex on where text has the character query[queryIndex]
RECURSIVE CharacterScan(_, _, _, _)
ScanFound(query, text, found, st) ==
  IF found = {} THEN st
  ELSE CharacterScan(query, text, Least(found) + 1,
         MatchCharacter(query, text, Least(found), st,
                        Least(found) = st.lastMatchIndex + 1))

CharacterScan(query, text, textIndex, st) ==
  IF st.queryIndex >= Len(query) THEN st
  ELSE ScanFound(query, text,
                 PositionsFrom(text, textIndex, query[st.queryIndex + 1]), st)

\* the state fuzzyCharacterMatch leaves its loop in
ScanAll(query, text) ==
  CharacterScan(query, text, 0,
    [score |-> Zero, matches |-> <<>>, queryIndex |-> 0,
     lastMatchIndex |-> -1, consecutiveMatches |-> 0])

\* Math.max(0.1, 1 - (dist / maxDistance)) for the distance dist between the
\* first and the last match (dist can exceed maxDistance when distance is
\* less than the length of the text)
DistancePenalty(dist, maxDistance) ==
  IF dist >= maxDistance THEN R(1, 10)
  ELSE RMax(R(1, 10), R(maxDistance - dist, maxDistance))

\* the score after "if (matches.length > 1)"
SpreadScore(score, matches, textLen) ==
  IF Len(matches) > 1
  THEN RMul(score, DistancePenalty(matches[Len(matches)].start - matches[1].start,
                                   IF distance < textLen THEN distance ELSE textLen))
  ELSE score

\* Math.max(0, (50 - textLen) / 100)
ShortTextBonus(textLen) == IF textLen < 50 THEN R(50 - textLen, 100) ELSE Zero

\* a plausible slip: the scan gives up at the first gap between two matched
\* characters, so that only a contiguous run of the query is accepted
FuzzyCharacterMatchContiguous(query, text) ==
  IF /\ ScanAll(query, text).queryIndex = Len(query)
     /\ Len(MergeConsecutiveMatches(ScanAll(query, text).matches)) <= 1
  THEN [score |-> RMin(ScanAll(query, text).score, R(1, 1)),
        matches |-> MergeConsecutiveMatches(ScanAll(query, text).matches)]
  ELSE NoMatch

\* a plausible slip: the characters found are credited although the scan did
\* not reach the end of the query
CharacterMatchResultPartial(query, text, st) ==
  IF st.queryIndex >= 1
  THEN [score |-> RMin(RAdd(SpreadScore(st.score, st.matches, Len(text)),
                            ShortTextBonus(Len(text))),
                       R(1, 1)),
        matches |-> MergeConsecutiveMatches(st.matches)]
  ELSE NoMatch

\* the part of fuzzyCharacterMatch after the loop
CharacterMatchResult(query, text, st) ==
  IF st.queryIndex = Len(query)
  THEN [score |-> RMin(RAdd(SpreadScore(st.score, st.matches, Len(text)),
                            ShortTextBonus(Len(text))),
                       R(1, 1)),
        matches |-> MergeConsecutiveMatches(st.matches)]
  ELSE NoMatch

\* FuzzySearch.fuzzyCharacterMatch(query, text)
FuzzyCharacterMatch(query, text) == CharacterMatchResult(query, text, ScanAll(query, text))

\* FuzzySearch.fuzzyMatch(query, text)
FuzzyMatch(query, text) ==
  IF Len(query) > Len(text) THEN NoMatch
  ELSE IF IndexOf(text, query) # -1
  THEN [score |-> R(1, 1),
        matches |-> <<[start |-> IndexOf(text, query),
                       end |-> IndexOf(text, query) + Len(query),
                       matchType |-> "exact"]>>]
  ELSE IF WordBoundaryMatches(query, text) # {}
  THEN [score |-> R(9, 10),
        matches |-> <<[start |-> Least(WordBoundaryMatches(query, text)),
                       end |-> Least(WordBoundaryMatches(query, text)) + Len(query),
                       matchType |-> "word-boundary"]>>]
  ELSE FuzzyCharacterMatch(query, text)

----------------------------------------------------------------------------
(* FuzzySearch.search, the search index and the search manager *)

\* options.maxResults || 8
maxResults == 8

\* options.minQueryLength || 2
minQueryLength == 2

\* FuzzySearch.getValue(obj, key) for the string fields of an entry
GetValue(obj, key) == obj[key]

\* matches.map(match => ({...match, key, value}))
TagMatches(matches, key, value) ==
  [m \in 1..Len(matches) |->
     [f \in DOMAIN matches[m] \cup {"key", "value"} |->
        IF f = "key" THEN key ELSE IF f = "value" THEN value ELSE matches[m][f]]]

\* matches.map(match => ({...match, key, value, expandedTerm: term}))
TagExpandedMatches(matches, key, value, term) ==
  [m \in 1..Len(matches) |->
     [f \in DOMAIN matches[m] \cup {"key", "value", "expandedTerm"} |->
        IF f = "key" THEN key
        ELSE IF f = "value" THEN value
        ELSE IF f = "expandedTerm" THEN term ELSE matches[m][f]]]

\* the assignments of "if (expandedResult.score > bestFuzzyScore) {...}" of
\* FuzzySearch.search: bestFuzzyScore, bestMatches and bestKey
TakeExpanded(expandedResult, key, value, term) ==
  [bestFuzzyScore |-> RMul(expandedResult.score, R(8, 10)),
   bestMatches |-> TagExpandedMatches(expandedResult.matches, key, value, term),
   bestKey |-> key]

\* "for (const term of expandedTerms)" of FuzzySearch.search, from term j on;
\* best holds bestFuzzyScore, bestMatches and bestKey
RECURSIVE ExpandedTermsLoop(_, _, _, _, _)
ExpandedTermsLoop(expandedTerms, j, key, value, best) ==
  IF j > Len(expandedTerms) THEN best
  ELSE IF RLess(best.bestFuzzyScore, FuzzyMatch(expandedTerms[j], ToLowerCase(value)).score)
  THEN ExpandedTermsLoop(expandedTerms, j + 1, key, value,
         TakeExpanded(FuzzyMatch(expandedTerms[j], ToLowerCase(value)),
                      key, value, expandedTerms[j]))
  ELSE ExpandedTermsLoop(expandedTerms, j + 1, key, value, best)

\* the assignments of "if (directResult.score > bestFuzzyScore) {...}" of
\* FuzzySearch.search
TakeDirect(directResult, key, value) ==
  [bestFuzzyScore |-> directResult.score,
   bestMatches |-> TagMatches(directResult.matches, key, value),
   bestKey |-> key]

\* the body of "for (const key of this.keys)" for a key whose value is not
\* empty: the query itself, then the expanded terms
TestKey(normalizedQuery, expandedTerms, key, value, best) ==
  IF RLess(best.bestFuzzyScore, FuzzyMatch(normalizedQuery, ToLowerCase(value)).score)
  THEN ExpandedTermsLoop(expandedTerms, 1, key, value,
         TakeDirect(FuzzyMatch(normalizedQuery, ToLowerCase(value)), key, value))
  ELSE ExpandedTermsLoop(expandedTerms, 1, key, value, best)

\* "for (const key of this.keys)" of FuzzySearch.search, from key k on
RECURSIVE KeysLoop(_, _, _, _, _)
KeysLoop(item, normalizedQuery, expandedTerms, k, best) ==
  IF k > Len(keys) THEN best
  ELSE IF GetValue(item, keys[k]) = <<>>
  THEN KeysLoop(item, normalizedQuery, expandedTerms, k + 1, best)
  ELSE KeysLoop(item, normalizedQuery, expandedTerms, k + 1,
         TestKey(normalizedQuery, expandedTerms, keys[k], GetValue(item, keys[k]), best))

\* the record results.push(...) builds for items[i] (i is 1-based, refIndex
\* 0-based)
ItemResult(item, i, keywordScore, best) ==
  [item |-> item,
   score |-> RAdd(keywordScore, best.bestFuzzyScore),
   matches |-> best.bestMatches,
   refIndex |-> i - 1,
   matchedKey |-> best.bestKey,
   keywordScore |-> keywordScore,
   fuzzyScore |-> best.bestFuzzyScore]

\* the body of the loop over items of FuzzySearch.search
ScoreItem(item, i, query, normalizedQuery, expandedTerms) ==
  ItemResult(item, i,
    CalculateSearchScore(item, query, expandedTerms),
    KeysLoop(item, normalizedQuery, expandedTerms, 1,
             [bestFuzzyScore |-> Zero, bestMatches |-> <<>>, bestKey |-> <<>>]))

\* a plausible slip: the comparator of the sort the wrong way round
InsertByScoreAscending(sorted, x) ==
  LET before == SelectSeq(sorted, LAMBDA y : RLeq(y.score, x.score))
      after == SelectSeq(sorted, LAMBDA y : ~RLeq(y.score, x.score))
  IN before \o <<x>> \o after

\* a plausible slip: an entry is put in front of the entries of equal score
InsertByScoreBeforeTies(sorted, x) ==
  LET before == SelectSeq(sorted, LAMBDA y : RLess(x.score, y.score))
      after == SelectSeq(sorted, LAMBDA y : ~RLess(x.score, y.score))
  IN before \o <<x>> \o after

\* one step of the stable sort by (a, b) => b.score - a.score: x goes behind
\* every entry of sorted whose score is not lower
InsertByScore(sorted, x) ==
  LET before == SelectSeq(sorted, LAMBDA y : RLeq(x.score, y.score))
      after == SelectSeq(sorted, LAMBDA y : ~RLeq(x.score, y.score))
  IN before \o <<x>> \o after

\* results.sort((a, b) => b.score - a.score); Array.prototype.sort is stable
RECURSIVE SortByScore(_)
SortByScore(results) ==
  IF results = <<>> THEN <<>>
  ELSE InsertByScore(SortByScore(SubSeq(results, 1, Len(results) - 1)),
                     results[Len(results)])

\* a plausible slip: the threshold test the wrong way round, so that the
\* results at or below the threshold are kept
SearchExpandedBelowThreshold(list, query, normalizedQuery, expandedTerms) ==
  SortByScore(SelectSeq([i \in 1..Len(list) |->
                           ScoreItem(list[i], i, query, normalizedQuery, expandedTerms)],
                        LAMBDA r : RLeq(r.score, threshold)))

\* FuzzySearch.search from the loop over items on: the results at or above
\* the threshold, sorted
SearchExpanded(list, query, normalizedQuery, expandedTerms) ==
  SortByScore(SelectSeq([i \in 1..Len(list) |->
                           ScoreItem(list[i], i, query, normalizedQuery, expandedTerms)],
                        LAMBDA r : RLeq(threshold, r.score)))

\* FuzzySearch.search from "const expandedTerms" on
SearchNormalized(list, query, normalizedQuery) ==
  SearchExpanded(list, query, normalizedQuery, ExpandSearchQuery(normalizedQuery))

\* FuzzySearch.search(items, query)
Search(list, query) ==
  IF Len(query) < 2
  THEN [i \in 1..Len(list) |->
          [item |-> list[i], score |-> Zero, matches |-> <<>>, refIndex |-> i - 1]]
  ELSE SearchNormalized(list, query, Trim(ToLowerCase(query)))

\* the searchable text FuzzySearch.createIndex builds from the keys
IndexSearchableText(item) ==
  ToLowerCase(JoinSpace(FilterBoolean([k \in 1..Len(keys) |-> GetValue(item, keys[k])])))

\* FuzzySearch.createIndex(items)
CreateIndex(list) ==
  [i \in 1..Len(list) |->
     [name |-> list[i].name, displayName |-> list[i].displayName,
      description |-> list[i].description, category |-> list[i].category,
      language |-> list[i].language, topics |-> list[i].topics,
      stars |-> list[i].stars, slug |-> list[i].slug,
      _searchText |-> IndexSearchableText(list[i]),
      _searchWords |-> SelectSeq(SplitWhiteSpace(IndexSearchableText(list[i])),
                                 LAMBDA word : Len(word) > 1),
      _originalIndex |-> i - 1]]

\* the quick word-based filter of FuzzySearch.searchIndex
HasWordMatch(item, normalizedQuery) ==
  \E w \in 1..Len(item._searchWords) :
    \/ Includes(item._searchWords[w], normalizedQuery)
    \/ Includes(normalizedQuery, item._searchWords[w])

\* "if (!hasWordMatch && normalizedQuery.length > 3) continue": the entries
\* of the index that reach the full search
Prefiltered(indexedItems, normalizedQuery) ==
  SelectSeq(indexedItems,
            LAMBDA item : ~(~HasWordMatch(item, normalizedQuery) /\ Len(normalizedQuery) > 3))

\* "if (result && result.score >= this.threshold) results.push(result)" for
\* the values found of this.search([item], query)
PushFound(found) ==
  [i \in 1..Len(found) |-> found[i][1]]

\* the loop over indexedItems of searchIndex: the results pushed, in the
\* order of the entries passing
SearchEach(passing, query) ==
  PushFound(SelectSeq([i \in 1..Len(passing) |-> Search(<<passing[i]>>, query)],
                      LAMBDA res : res # <<>> /\ RLeq(threshold, res[1].score)))

\* FuzzySearch.searchIndex(indexedItems, query)
SearchIndex(indexedItems, query) ==
  IF Len(query) < 2
  THEN [i \in 1..Len(indexedItems) |->
          [item |-> indexedItems[i], score |-> Zero, matches |-> <<>>]]
  ELSE SortByScore(SearchEach(Prefiltered(indexedItems, Trim(ToLowerCase(query))), query))

\* one step of the stable sort by (a, b) => a.start - b.start
InsertByStart(sorted, x) ==
  SelectSeq(sorted, LAMBDA y : y.start <= x.start) \o <<x>>
    \o SelectSeq(sorted, LAMBDA y : y.start > x.start)

\* the stable sort matches.sort((a, b) => a.start - b.start)
RECURSIVE SortByStart(_)
SortByStart(matches) ==
  IF matches = <<>> THEN <<>>
  ELSE InsertByStart(SortByStart(SubSeq(matches, 1, Len(matches) - 1)),
                     matches[Len(matches)])

MarkOpen == "<mark class=\"search-highlight\">"

MarkClose == "</mark>"

\* the loop "for (const match of sortedMatches)" of highlightMatches
RECURSIVE HighlightLoop(_, _, _, _, _)
HighlightLoop(text, sortedMatches, m, lastIndex, result) ==
  IF m > Len(sortedMatches) THEN result \o Slice(text, lastIndex, Len(text))
  ELSE HighlightLoop(text, sortedMatches, m + 1, sortedMatches[m].end,
         result \o Slice(text, lastIndex, sortedMatches[m].start)
                \o <<MarkOpen>>
                \o Slice(text, sortedMatches[m].start, sortedMatches[m].end)
                \o <<MarkClose>>)

\* FuzzySearch.highlightMatches(text, matches): the string returned; the
\* array matches is left sorted by start (the sort is in place)
HighlightMatches(text, matches) ==
  IF matches = <<>> THEN text
  ELSE HighlightLoop(text, SortByStart(matches), 1, 0, <<>>)

\* the record SearchManager.search maps a result to, for the spans
\* sortedMatches that the first call of highlightMatches leaves in
\* result.matches; the spans are kept next to the entry
Highlighted(result, sortedMatches) ==
  [item |-> result.item,
   score |-> result.score,
   matches |-> sortedMatches,
   highlightedName |->
     HighlightMatches(IF result.item.displayName # <<>>
                      THEN result.item.displayName ELSE result.item.name,
                      result.matches),
   highlightedDescription |-> HighlightMatches(result.item.description, sortedMatches)]

\* results.slice(0, this.maxResults).map(...)
HighlightTop(results) ==
  [i \in 1..(IF Len(results) < maxResults THEN Len(results) ELSE maxResults) |->
     Highlighted(results[i], SortByStart(results[i].matches))]

\* the value this.search(query) of SearchManager returns for the index
\* indexed
ManagerResults(indexed, query) ==
  IF Len(query) < minQueryLength THEN <<>>
  ELSE HighlightTop(SearchIndex(indexed, query))

----------------
(* levenshteinDistance of the search box (components/SearchBox.js) *)

Min3(a, b, c) ==
  IF a <= b /\ a <= c THEN a ELSE IF b <= c THEN b ELSE c

\* a plausible slip: the deletion term is matrix[i - 1][j] + 2
LevenshteinCellSkewed(str1, str2, i, j, prevRow, row) ==
  IF str2[i] = str1[j]
  THEN prevRow[j]
  ELSE Min3(prevRow[j] + 1, row[j] + 1, prevRow[j + 1] + 2)

\* matrix[i][j] for i, j >= 1, from matrix[i - 1] (prevRow) and the cells
\* matrix[i][0..j-1] (row); a row holds column c at index c + 1
LevenshteinCell(str1, str2, i, j, prevRow, row) ==
  IF str2[i] = str1[j]
  THEN prevRow[j]
  ELSE Min3(prevRow[j] + 1, row[j] + 1, prevRow[j + 1] + 1)

\* the inner loop over j: the row matrix[i], which starts as [i]
RECURSIVE LevenshteinRow(_, _, _, _, _)
LevenshteinRow(str1, str2, i, prevRow, row) ==
  IF Len(row) > Len(str1) THEN row
  ELSE LevenshteinRow(str1, str2, i, prevRow,
                      Append(row, LevenshteinCell(str1, str2, i, Len(row), prevRow, row)))

\* the outer loop over i: the last row of the matrix
RECURSIVE LevenshteinRows(_, _, _, _)
LevenshteinRows(str1, str2, i, prevRow) ==
  IF i > Len(str2) THEN prevRow
  ELSE LevenshteinRows(str1, str2, i + 1, LevenshteinRow(str1, str2, i, prevRow, <<i>>))

\* levenshteinDistance(str1, str2) = matrix[str2.length][str1.length]
LevenshteinDistance(str1, str2) ==
  LevenshteinRows(str1, str2, 1, [j \in 1..(Len(str1) + 1) |-> j - 1])[Len(str1) + 1]

----------------------------------------------------------------------------
(* The scoring pass of the search boxes (components/SearchBox.js and *)
(* components/SimpleSearch.js) *)

\* the characters of the separator /[\s\-_\.]+/ of the SearchBox filter
BoxSeparators == WhiteSpace \cup {"-", "_", "."}

\* searchTarget of the SearchBox filter; guide.searchText is absent from the
\* guides, so that (guide.searchText || '') is the empty string
BoxSearchTarget(guide) ==
  ToLowerCase(JoinSpace(FilterBoolean(
    <<guide.name, guide.displayName, guide.description, guide.category, guide.language>>
      \o guide.topics \o << <<>> >>)))

\* the loop "for (let i = 0; ...)" of the SearchBox filter from the 1-based
\* position i of word on: the value of matches (= queryIndex) it ends with
RECURSIVE CountInOrder(_, _, _, _)
CountInOrder(word, normalizedQuery, i, queryIndex) ==
  IF i > Len(word) \/ queryIndex >= Len(normalizedQuery) THEN queryIndex
  ELSE IF word[i] = normalizedQuery[queryIndex + 1]
  THEN CountInOrder(word, normalizedQuery, i + 1, queryIndex + 1)
  ELSE CountInOrder(word, normalizedQuery, i + 1, queryIndex)

\* matches >= Math.min(normalizedQuery.length * 0.7, word.length * 0.6)
EnoughMatches(matches, queryLen, wordLen) ==
  10 * matches >= (IF 7 * queryLen < 6 * wordLen THEN 7 * queryLen ELSE 6 * wordLen)

\* the tests of the SearchBox filter on searchTarget: direct match, word
\* prefix, and for a query of 3 characters or more the characters in order
BoxTargetMatches(searchTarget, normalizedQuery, words) ==
  \/ Includes(searchTarget, normalizedQuery)
  \/ \E w \in 1..Len(words) : StartsWith(words[w], normalizedQuery)
  \/ /\ Len(normalizedQuery) >= 3
     /\ \E w \in 1..Len(words) :
          /\ Len(words[w]) >= 3
          /\ EnoughMatches(CountInOrder(words[w], normalizedQuery, 1, 0),
                           Len(normalizedQuery), Len(words[w]))

\* the callback of guides.filter in the SearchBox effect
BoxFilter(guide, query) ==
  BoxTargetMatches(BoxSearchTarget(guide), ToLowerCase(query),
                   SplitRuns(BoxSearchTarget(guide), BoxSeparators))

\* Math.min(guide.stars || 0, 10)
StarsBoost(guide) == IF guide.stars < 10 THEN guide.stars ELSE 10

\* b ? n : 0
Points(b, n) == IF b THEN n ELSE 0

\* getSimpleScore(guide, query) of SearchBox; guide.category is not
\* lowercased
GetSimpleScore(guide, query) ==
  Points(ToLowerCase(guide.name) = ToLowerCase(query), 100)
    + Points(ToLowerCase(guide.displayName) = ToLowerCase(query), 90)
    + Points(Includes(ToLowerCase(guide.name), ToLowerCase(query)), 50)
    + Points(Includes(ToLowerCase(guide.displayName), ToLowerCase(query)), 40)
    + Points(Includes(ToLowerCase(guide.description), ToLowerCase(query)), 20)
    + Points(Includes(guide.category, ToLowerCase(query)), 30)
    + Points(guide.language # <<>> /\ Includes(ToLowerCase(guide.language), ToLowerCase(query)), 15)
    + StarsBoost(guide)

\* the keyword aliases the SimpleSearch filter adds for a guide of that name
SIMPLE_ALIASES ==
  <<
    \* kubernetes -> kubectl k8s k8 container orchestration
    [name |-> <<"k","u","b","e","r","n","e","t","e","s">>,
     text |-> <<"k","u","b","e","c","t","l"," ","k","8","s"," ","k","8"," ","c","o","n","t","a","i","n","e","r"," ","o","r","c","h","e","s","t","r","a","t","i","o","n">>],
    \* docker -> container containerization
    [name |-> <<"d","o","c","k","e","r">>,
     text |-> <<"c","o","n","t","a","i","n","e","r"," ","c","o","n","t","a","i","n","e","r","i","z","a","t","i","o","n">>],
    \* postgresql -> postgres sql database
    [name |-> <<"p","o","s","t","g","r","e","s","q","l">>,
     text |-> <<"p","o","s","t","g","r","e","s"," ","s","q","l"," ","d","a","t","a","b","a","s","e">>],
    \* mongodb -> mongo nosql database
    [name |-> <<"m","o","n","g","o","d","b">>,
     text |-> <<"m","o","n","g","o"," ","n","o","s","q","l"," ","d","a","t","a","b","a","s","e">>],
    \* nginx -> web server reverse proxy http
    [name |-> <<"n","g","i","n","x">>,
     text |-> <<"w","e","b"," ","s","e","r","v","e","r"," ","r","e","v","e","r","s","e"," ","p","r","o","x","y"," ","h","t","t","p">>],
    \* apache -> web server http httpd
    [name |-> <<"a","p","a","c","h","e">>,
     text |-> <<"w","e","b"," ","s","e","r","v","e","r"," ","h","t","t","p"," ","h","t","t","p","d">>],
    \* prometheus -> metrics monitoring alerting
    [name |-> <<"p","r","o","m","e","t","h","e","u","s">>,
     text |-> <<"m","e","t","r","i","c","s"," ","m","o","n","i","t","o","r","i","n","g"," ","a","l","e","r","t","i","n","g">>],
    \* grafana -> dashboards visualization monitoring
    [name |-> <<"g","r","a","f","a","n","a">>,
     text |-> <<"d","a","s","h","b","o","a","r","d","s"," ","v","i","s","u","a","l","i","z","a","t","i","o","n"," ","m","o","n","i","t","o","r","i","n","g">>],
    \* vault -> secrets hashicorp security
    [name |-> <<"v","a","u","l","t">>,
     text |-> <<"s","e","c","r","e","t","s"," ","h","a","s","h","i","c","o","r","p"," ","s","e","c","u","r","i","t","y">>],
    \* mattermost -> chat slack teams communication
    [name |-> <<"m","a","t","t","e","r","m","o","s","t">>,
     text |-> <<"c","h","a","t"," ","s","l","a","c","k"," ","t","e","a","m","s"," ","c","o","m","m","u","n","i","c","a","t","i","o","n">>],
    \* rocketchat -> chat slack teams communication
    [name |-> <<"r","o","c","k","e","t","c","h","a","t">>,
     text |-> <<"c","h","a","t"," ","s","l","a","c","k"," ","t","e","a","m","s"," ","c","o","m","m","u","n","i","c","a","t","i","o","n">>],
    \* jellyfin -> media server streaming movies tv
    [name |-> <<"j","e","l","l","y","f","i","n">>,
     text |-> <<"m","e","d","i","a"," ","s","e","r","v","e","r"," ","s","t","r","e","a","m","i","n","g"," ","m","o","v","i","e","s"," ","t","v">>],
    \* plex -> media server streaming movies tv music
    [name |-> <<"p","l","e","x">>,
     text |-> <<"m","e","d","i","a"," ","s","e","r","v","e","r"," ","s","t","r","e","a","m","i","n","g"," ","m","o","v","i","e","s"," ","t","v"," ","m","u","s","i","c">>],
    \* nextcloud -> files cloud storage sync
    [name |-> <<"n","e","x","t","c","l","o","u","d">>,
     text |-> <<"f","i","l","e","s"," ","c","l","o","u","d"," ","s","t","o","r","a","g","e"," ","s","y","n","c">>],
    \* wordpress -> cms blog website
    [name |-> <<"w","o","r","d","p","r","e","s","s">>,
     text |-> <<"c","m","s"," ","b","l","o","g"," ","w","e","b","s","i","t","e">>],
    \* gitlab -> git repository ci cd devops
    [name |-> <<"g","i","t","l","a","b">>,
     text |-> <<"g","i","t"," ","r","e","p","o","s","i","t","o","r","y"," ","c","i"," ","c","d"," ","d","e","v","o","p","s">>],
    \* jenkins -> ci cd continuous integration devops
    [name |-> <<"j","e","n","k","i","n","s">>,
     text |-> <<"c","i"," ","c","d"," ","c","o","n","t","i","n","u","o","u","s"," ","i","n","t","e","g","r","a","t","i","o","n"," ","d","e","v","o","p","s">>],
    \* ansible -> automation configuration management
    [name |-> <<"a","n","s","i","b","l","e">>,
     text |-> <<"a","u","t","o","m","a","t","i","o","n"," ","c","o","n","f","i","g","u","r","a","t","i","o","n"," ","m","a","n","a","g","e","m","e","n","t">>],
    \* terraform -> iac infrastructure automation
    [name |-> <<"t","e","r","r","a","f","o","r","m">>,
     text |-> <<"i","a","c"," ","i","n","f","r","a","s","t","r","u","c","t","u","r","e"," ","a","u","t","o","m","a","t","i","o","n">>]
  >>

\* guide.name === '...' ? '...' : '' over the names of SIMPLE_ALIASES: the
\* alias texts that are not empty
SimpleAliases(guide) ==
  [k \in 1..Len(SelectSeq(SIMPLE_ALIASES, LAMBDA a : a.name = guide.name)) |->
     SelectSeq(SIMPLE_ALIASES, LAMBDA a : a.name = guide.name)[k].text]

\* searchableText of the SimpleSearch filter
SimpleSearchableText(guide) ==
  ToLowerCase(JoinSpace(FilterBoolean(
    <<guide.name, guide.displayName, guide.description, guide.category, guide.language>>
      \o guide.topics \o SimpleAliases(guide) \o << <<>> >>)))

\* the test of the SimpleSearch filter on searchableText and its words
\* (searchableText.split(' '))
SimpleTextMatches(searchableText, normalizedQuery, words) ==
  \/ Includes(searchableText, normalizedQuery)
  \/ \E w \in 1..Len(words) :
       StartsWith(words[w], normalizedQuery) \/ Includes(words[w], normalizedQuery)

\* text.split(' '): the pieces between single blanks
SplitBlank(text) ==
  [k \in 1..(Cardinality({i \in 1..Len(text) : text[i] = " "}) + 1) |->
     SubSeq(text,
            (IF k = 1 THEN 0
             ELSE SortedSeq({i \in 1..Len(text) : text[i] = " "})[k - 1]) + 1,
            (IF k = Cardinality({i \in 1..Len(text) : text[i] = " "}) + 1 THEN Len(text) + 1
             ELSE SortedSeq({i \in 1..Len(text) : text[i] = " "})[k]) - 1)]

\* the callback of guides.filter in the SimpleSearch effect
SimpleFilter(guide, normalizedQuery) ==
  SimpleTextMatches(SimpleSearchableText(guide), normalizedQuery,
                    SplitBlank(SimpleSearchableText(guide)))

\* calculateScore(guide, query) of SimpleSearch
CalculateScore(guide, query) ==
  Points(ToLowerCase(guide.name) = query, 100)
    + Points(ToLowerCase(guide.displayName) = query, 90)
    + Points(Includes(ToLowerCase(guide.name), query), 50)
    + Points(Includes(ToLowerCase(guide.displayName), query), 40)
    + Points(Includes(ToLowerCase(guide.description), query), 20)
    + Points(Includes(ToLowerCase(guide.category), query), 30)
    + Points(guide.language # <<>> /\ Includes(ToLowerCase(guide.language), query), 15)
    + StarsBoost(guide)

\* the guides of a list of scored guides
ItemsOf(scored) == [i \in 1..Len(scored) |-> scored[i].item]

\* slice that keeps the whole array
TakeAll(seq, n) == seq

\* array.slice(0, n)
Take(seq, n) == SubSeq(seq, 1, IF Len(seq) < n THEN Len(seq) ELSE n)

\* the filtered guides of the SearchBox effect, each with its getSimpleScore
BoxScored(filtered, query) ==
  [i \in 1..Len(filtered) |->
     [item |-> filtered[i], score |-> R(GetSimpleScore(filtered[i], query), 1)]]

\* guides.filter(...).sort((a, b) => bScore - aScore).slice(0, 8) of the
\* SearchBox effect
BoxSearch(list, query) ==
  Take(ItemsOf(SortByScore(
         BoxScored(SelectSeq(list, LAMBDA guide : BoxFilter(guide, query)), query))), 8)

\* the filtered guides of the SimpleSearch effect, each with its
\* calculateScore
SimpleScored(filtered, normalizedQuery) ==
  [i \in 1..Len(filtered) |->
     [item |-> filtered[i], score |-> R(CalculateScore(filtered[i], normalizedQuery), 1)]]

\* the same of the SimpleSearch effect, where the query is lowercased and
\* trimmed first
SimpleSearch(list, normalizedQuery) ==
  Take(ItemsOf(SortByScore(
         SimpleScored(SelectSeq(list, LAMBDA guide : SimpleFilter(guide, normalizedQuery)),
                      normalizedQuery))), 8)

----------------------------------------------------------------------------
(* Inputs *)

\* the guides the catalogs are drawn from (name, displayName, description,
\* category, language, topics, stars, slug as the data generation writes them)
Pool ==
  <<
    [name |-> <<"n","g","i","n","x">>,
     displayName |-> <<"N","G","I","N","X">>,
     description |-> <<"w","e","b"," ","s","e","r","v","e","r">>,
     category |-> <<"w","e","b","-","s","e","r","v","e","r">>,
     language |-> <<"s","h","e","l","l">>,
     topics |-> <<<<"p","r","o","x","y">>>>,
     stars |-> 20,
     slug |-> <<"n","g","i","n","x">>],
    [name |-> <<"n","g","i","n","x","-","p","r","o","x","y">>,
     displayName |-> <<"N","g","i","n","x"," ","P","r","o","x","y">>,
     description |-> <<"n","g","i","n","x"," ","r","e","v","e","r","s","e"," ","p","r","o","x","y">>,
     category |-> <<"w","e","b","-","s","e","r","v","e","r">>,
     language |-> <<>>,
     topics |-> <<>>,
     stars |-> 5,
     slug |-> <<"n","g","i","n","x","-","p","r","o","x","y">>],
    [name |-> <<"k","u","b","e","r","n","e","t","e","s">>,
     displayName |-> <<"K","u","b","e","r","n","e","t","e","s">>,
     description |-> <<"c","o","n","t","a","i","n","e","r"," ","o","r","c","h","e","s","t","r","a","t","i","o","n">>,
     category |-> <<"c","o","n","t","a","i","n","e","r","s">>,
     language |-> <<"g","o">>,
     topics |-> <<>>,
     stars |-> 50,
     slug |-> <<"k","u","b","e","r","n","e","t","e","s">>],
    [name |-> <<"n","a","g","i","o","s">>,
     displayName |-> <<"N","a","g","i","o","s">>,
     description |-> <<"m","o","n","i","t","o","r","i","n","g">>,
     category |-> <<"m","o","n","i","t","o","r","i","n","g">>,
     language |-> <<>>,
     topics |-> <<>>,
     stars |-> 3,
     slug |-> <<"n","a","g","i","o","s">>],
    [name |-> <<"c","a","d","d","y">>,
     displayName |-> <<"C","a","d","d","y">>,
     description |-> <<"f","a","s","t"," ","n","g","i","n","x"," ","a","l","t","e","r","n","a","t","i","v","e">>,
     category |-> <<"w","e","b","-","s","e","r","v","e","r">>,
     language |-> <<"g","o">>,
     topics |-> <<>>,
     stars |-> 3,
     slug |-> <<"c","a","d","d","y">>]
  >>

QEmpty == <<>>

QOneChar == <<"n">>

QNginx == <<"n","g","i","n","x">>

QNginxUpper == <<"N","G","I","N","X">>

QNginxPadded == <<" ","n","g","i","n","x">>

QNgin == <<"n","g","i","n">>

QNgx == <<"n","g","x">>

QNginix == <<"n","g","i","n","i","x">>

QK8s == <<"k","8","s">>

QKubectl == <<"k","u","b","e","c","t","l">>

QProxy == <<"p","r","o","x","y">>

QWeb == <<"w","e","b">>

\* the abbreviation of 'reverse proxy'
QRp == <<"r","p">>

\* two spaces
QBlank == <<" "," ">>

\* one character between two spaces
QPaddedOne == <<" ","n"," ">>

\* the query texts the operations are called with
Queries == {QEmpty, QOneChar, QNginx, QNginxUpper, QNginxPadded, QNgin, QNgx, QNginix, QK8s, QKubectl, QProxy, QWeb, QRp}


----------------------------------------------------------------------------
(* Catalogs *)

\* Pool[order[1]], Pool[order[2]], ...
CatalogOf(order) == [i \in 1..Len(order) |-> Pool[order[i]]]

\* the ways to line up n different guides of the pool
Orders(n) ==
  {order \in [1..n -> 1..Len(Pool)] :
     \A i, j \in 1..n : i # j => order[i] # order[j]}

\* a catalog longer than maxResults: the guides 1, 2 and 5 of the pool three
\* times over, told apart by their slug and stars
BigCatalog ==
  [i \in 1..(maxResults + 1) |->
     [Pool[<<1, 2, 5>>[((i - 1) % 3) + 1]] EXCEPT
        !.slug = @ \o <<"-", <<"1","2","3","4","5","6","7","8","9">>[((i - 1) % 9) + 1]>>,
        !.stars = 4 * (((i - 1) % 9) + 1)]]

\* array.reverse() on a copy
Reverse(seq) == [i \in 1..Len(seq) |-> seq[Len(seq) + 1 - i]]

Catalogs ==
  {CatalogOf(order) : order \in UNION {Orders(n) : n \in 0..MaxCatalog}}
    \cup {BigCatalog}

----------------------------------------------------------------------------
(* State machine *)

NoCall == [called |-> FALSE, query |-> <<>>, ret |-> <<>>]

\* new SearchAnalytics(): searches and popularTerms are empty; tracked is the
\* list of the records trackSearch has built so far
NewAnalytics == [searches |-> <<>>, popularTerms |-> <<>>, tracked |-> <<>>]

\* new SearchManager(): the fields after construction
Constructed ==
  /\ searchData = <<>>
  /\ searchIndex = <<>>
  /\ currentQuery = <<>>
  /\ selectedIndex = -1
  /\ op = "init"
  /\ ret = <<>>
  /\ prev = NoCall

\* the value null of the guides prop
Null == <<[null |-> TRUE]>>

\* no router.push
NoRoute == <<>>

\* searchError of SearchBox: null, or the message of its catch block
NoError == "null"

SearchUnavailable == "Search temporarily unavailable. Please try again."

\* a search box after its first render and effect: the useState initial
\* values, and the timeout the debounce effect has set for the empty query
Mounted(component, guides) ==
  [component |-> component,
   guides |-> guides,
   query |-> <<>>,
   results |-> <<>>,
   isOpen |-> FALSE,
   selectedIndex |-> -1,
   searchError |-> NoError,
   pending |-> {[id |-> 1, query |-> <<>>, guides |-> guides]},
   timer |-> 1,
   nextTimer |-> 2,
   pushed |-> NoRoute,
   scored |-> 0,
   uncaught |-> FALSE,
   cleared |-> {}]

Init ==
  /\ items \in Catalogs
  /\ arg = <<>>
  /\ Constructed
  /\ analytics = NewAnalytics
  /\ box = Mounted("SearchBox", <<>>)

manager == <<searchData, searchIndex, currentQuery, selectedIndex>>

\* new FuzzySearch().search(items, q), called once on the catalog drawn
DoSearch(q) ==
  /\ op = "init"
  /\ op' = "search"
  /\ arg' = [query |-> q]
  /\ ret' = Search(items, q)
  /\ UNCHANGED <<analytics, box, items, manager, prev>>

\* fuzzySearch.searchIndex(fuzzySearch.createIndex(items), q)
DoSearchIndex(q) ==
  /\ op = "init"
  /\ op' = "searchIndex"
  /\ arg' = [query |-> q]
  /\ ret' = SearchIndex(CreateIndex(items), q)
  /\ UNCHANGED <<analytics, box, items, manager, prev>>

\* the call fuzzyMatch(normalizedQuery, value.toLowerCase()) that search makes
\* for the field key of items[i]
DoFuzzyMatch(q, i, key) ==
  /\ op = "init"
  /\ i \in 1..Len(items)
  /\ GetValue(items[i], key) # <<>>
  /\ op' = "fuzzyMatch"
  /\ arg' = [query |-> Trim(ToLowerCase(q)), text |-> ToLowerCase(GetValue(items[i], key))]
  /\ ret' = FuzzyMatch(Trim(ToLowerCase(q)), ToLowerCase(GetValue(items[i], key)))
  /\ UNCHANGED <<analytics, box, items, manager, prev>>

\* fuzzySearch.fuzzyCharacterMatch(query, text) on the normalized query and
\* the lowercased field key of items[i]
DoFuzzyCharacterMatch(q, i, key) ==
  /\ op = "init"
  /\ i \in 1..Len(items)
  /\ GetValue(items[i], key) # <<>>
  /\ op' = "fuzzyCharacterMatch"
  /\ arg' = [query |-> Trim(ToLowerCase(q)), text |-> ToLowerCase(GetValue(items[i], key))]
  /\ ret' = FuzzyCharacterMatch(Trim(ToLowerCase(q)), ToLowerCase(GetValue(items[i], key)))
  /\ UNCHANGED <<analytics, box, items, manager, prev>>

Next ==
  \/ \E q \in Queries : DoSearch(q)
  \/ \E q \in Queries : DoSearchIndex(q)
  \/ \E q \in Queries, i \in 1..(maxResults + 1), k \in 1..Len(keys) : DoFuzzyMatch(q, i, keys[k])
  \/ \E q \in Queries, i \in 1..(maxResults + 1), k \in 1..Len(keys) :
       DoFuzzyCharacterMatch(q, i, keys[k])

\* the stateless FuzzySearch on a catalog
Spec == Init /\ [][Next]_vars

\* SearchManager.setData(data)
SetData(data) ==
  /\ searchData' = data
  /\ searchIndex' = CreateIndex(data)
  /\ op' = "setData"
  /\ arg' = <<>>
  /\ ret' = <<>>
  /\ prev' = NoCall
  /\ UNCHANGED <<analytics, box, items, currentQuery, selectedIndex>>

\* a plausible slip: the search runs before this.currentQuery is assigned and
\* reads the query from it
ManagerSearchStale(q) ==
  /\ currentQuery' = q
  /\ selectedIndex' = -1
  /\ op' = "managerSearch"
  /\ arg' = [query |-> q]
  /\ ret' = ManagerResults(searchIndex, currentQuery)
  /\ prev' = IF op = "managerSearch"
             THEN [called |-> TRUE, query |-> arg.query, ret |-> ret]
             ELSE NoCall
  /\ UNCHANGED <<analytics, box, items, searchData, searchIndex>>

\* SearchManager.search(q); prev keeps the call before when that was a search
\* too, so that no setData lies between the two
ManagerSearch(q) ==
  /\ currentQuery' = q
  /\ selectedIndex' = -1
  /\ op' = "managerSearch"
  /\ arg' = [query |-> q]
  /\ ret' = ManagerResults(searchIndex, q)
  /\ prev' = IF op = "managerSearch"
             THEN [called |-> TRUE, query |-> arg.query, ret |-> ret]
             ELSE NoCall
  /\ UNCHANGED <<analytics, box, items, searchData, searchIndex>>

\* the query texts the manager is called with
ManagerQueries == {QOneChar, QNginx, QK8s, QProxy, QWeb, QBlank, QPaddedOne}

NextManager ==
  \/ \E data \in {items, Reverse(items)} : SetData(data)
  \/ \E q \in ManagerQueries : ManagerSearch(q)

\* one SearchManager through its life
SpecManager == Init /\ [][NextManager]_vars

\* the strings levenshteinDistance is called with
LevAlphabet == {"n", "g", "i"}

LevStrings ==
  UNION {[1..n -> LevAlphabet] : n \in 0..MaxLevLen} \cup {QNginx, QNginix}

InitLev ==
  /\ items = <<>>
  /\ Constructed
  /\ analytics = NewAnalytics
  /\ box = Mounted("SearchBox", <<>>)
  /\ \E str1 \in LevStrings, str2 \in LevStrings :
       arg = [str1 |-> str1, str2 |-> str2]

\* levenshteinDistance(arg.str1, arg.str2)
DoLevenshtein ==
  /\ op = "init"
  /\ op' = "levenshteinDistance"
  /\ ret' = LevenshteinDistance(arg.str1, arg.str2)
  /\ UNCHANGED <<analytics, box, items, manager, arg, prev>>

NextLev == DoLevenshtein

\* levenshteinDistance on a pair of strings
SpecLev == InitLev /\ [][NextLev]_vars

\* the upper-case letter of every lower-case letter
UpperOf == [c \in {LowerCase[i] : i \in 1..26} |->
              UpperCase[CHOOSE i \in 1..26 : LowerCase[i] = c]]

\* the term in capitals, as a user may type it
ToUpperCase(s) == [i \in 1..Len(s) |-> IF s[i] \in DOMAIN UpperOf THEN UpperOf[s[i]] ELSE s[i]]

Blanks(n) == [i \in 1..n |-> " "]

QHaproxy == <<"h","a","p","r","o","x","y">>

QStream == <<"s","t","r","e","a","m">>

QSqlite == <<"s","q","l","i","t","e">>

\* the terms expandSearchQuery is called with: the keys of the table, the
\* queries and some terms that are no key, as typed, in capitals, and with
\* blanks around them
ExpandTerms ==
  {SEARCH_KEYWORDS[i].keyword : i \in 1..Len(SEARCH_KEYWORDS)}
    \cup Queries \cup {QHaproxy, QStream, QSqlite}

ExpandInputs ==
  {Blanks(l) \o t \o Blanks(r) :
     l \in 0..MaxPad, r \in 0..MaxPad,
     t \in ExpandTerms \cup {ToUpperCase(u) : u \in ExpandTerms}}

InitExpand ==
  /\ items = <<>>
  /\ Constructed
  /\ analytics = NewAnalytics
  /\ box = Mounted("SearchBox", <<>>)
  /\ \E term \in ExpandInputs : arg = [term |-> term]

\* expandSearchQuery(arg.term)
DoExpand ==
  /\ op = "init"
  /\ op' = "expandSearchQuery"
  /\ ret' = ExpandSearchQuery(arg.term)
  /\ UNCHANGED <<analytics, box, items, manager, arg, prev>>

NextExpand == DoExpand

\* expandSearchQuery on a term
SpecExpand == InitExpand /\ [][NextExpand]_vars

----------------------------------------------------------------------------
(* A search box session (components/SearchBox.js, components/SimpleSearch.js) *)
(* React 18 commits the state updates of one event or callback together and  *)
(* runs the cleanup of the debounce effect and the effect itself in the same *)
(* turn of the event loop, so that each handler is one step.                 *)

\* most timeouts one session sets
MaxTimers == 4

\* the guides props of the sessions
BoxCatalogs == {CatalogOf(<<1>>), CatalogOf(<<4, 2, 1, 5>>), BigCatalog}

QNone == <<"z","z">>

\* the texts typed into the input
BoxQueries == {QEmpty, QOneChar, QNginx, QProxy, QNone, QBlank}

\* Math.min without the comparison
MinFirst(a, b) == a

\* Math.min / Math.max
Min(a, b) == IF a < b THEN a ELSE b

Max(a, b) == IF a < b THEN b ELSE a

\* the step forgets what the step before it did
Quiet(b) == [b EXCEPT !.pushed = NoRoute, !.scored = 0, !.uncaught = FALSE, !.cleared = {}]

\* `/${result.category}/${result.slug}/`
Route(result) == <<"/">> \o result.category \o <<"/">> \o result.slug \o <<"/">>

\* the effect without its cleanup
EffectNoCleanup(b, q, g) ==
  [b EXCEPT !.query = q,
            !.guides = g,
            !.pending = @ \cup {[id |-> b.nextTimer, query |-> q, guides |-> g]},
            !.timer = b.nextTimer,
            !.nextTimer = @ + 1]

\* the debounce effect after query or guides changed: the cleanup
\* clearTimeout(timer) of the effect before, then setTimeout for the new
\* values
Effect(b, q, g) ==
  [b EXCEPT !.query = q,
            !.guides = g,
            !.pending = {t \in @ : t.id # b.timer}
                          \cup {[id |-> b.nextTimer, query |-> q, guides |-> g]},
            !.timer = b.nextTimer,
            !.nextTimer = @ + 1,
            !.cleared = {t.id : t \in {t \in b.pending : t.id = b.timer}}]

\* the effect runs only when a dependency changed
SetQuery(b, q) == IF q = b.query THEN b ELSE Effect(b, q, b.guides)

\* searchResults of the SearchBox callback for the guides and query of its
\* closure, computed once for each pair
BoxSearchResults == [g \in BoxCatalogs, q \in BoxQueries |-> BoxSearch(g, q)]

\* searchResults of the SimpleSearch callback
SimpleSearchResults ==
  [g \in BoxCatalogs, q \in BoxQueries |-> SimpleSearch(g, Trim(ToLowerCase(q)))]

\* the callback without its test of the query length
BoxCallbackAnyLength(b, q, g) ==
  IF g = Null
  THEN [b EXCEPT !.searchError = SearchUnavailable, !.isOpen = FALSE]
  ELSE [b EXCEPT !.searchError = NoError,
                 !.results = BoxSearchResults[g, q],
                 !.isOpen = TRUE,
                 !.selectedIndex = -1,
                 !.scored = Len(g)]

\* the timeout callback of SearchBox on the query and guides of its closure
BoxCallback(b, q, g) ==
  IF Len(q) >= 2
  THEN IF g = Null
       THEN [b EXCEPT !.searchError = SearchUnavailable, !.isOpen = FALSE]
       ELSE [b EXCEPT !.searchError = NoError,
                      !.results = BoxSearchResults[g, q],
                      !.isOpen = TRUE,
                      !.selectedIndex = -1,
                      !.scored = Len(g)]
  ELSE [b EXCEPT !.searchError = NoError,
                 !.results = <<>>,
                 !.isOpen = FALSE,
                 !.selectedIndex = -1]

\* the callback of SimpleSearch whose else branch leaves results alone
SimpleCallbackKeepsResults(b, q, g) ==
  IF Len(q) >= 2
  THEN IF g = Null
       THEN [b EXCEPT !.uncaught = TRUE]
       ELSE [b EXCEPT !.results = SimpleSearchResults[g, q],
                      !.isOpen = SimpleSearchResults[g, q] # <<>>,
                      !.selectedIndex = -1,
                      !.scored = Len(g)]
  ELSE [b EXCEPT !.isOpen = FALSE, !.selectedIndex = -1]

\* the timeout callback of SimpleSearch; guides.filter on null throws and
\* nothing catches it
SimpleCallback(b, q, g) ==
  IF Len(q) >= 2
  THEN IF g = Null
       THEN [b EXCEPT !.uncaught = TRUE]
       ELSE [b EXCEPT !.results = SimpleSearchResults[g, q],
                      !.isOpen = SimpleSearchResults[g, q] # <<>>,
                      !.selectedIndex = -1,
                      !.scored = Len(g)]
  ELSE [b EXCEPT !.results = <<>>, !.isOpen = FALSE, !.selectedIndex = -1]

Callback(b, q, g) ==
  IF b.component = "SearchBox" THEN BoxCallback(b, q, g) ELSE SimpleCallback(b, q, g)

\* handleClose
HandleClose(b) == SetQuery([b EXCEPT !.isOpen = FALSE, !.selectedIndex = -1], <<>>)

\* handleKeyDown whose Enter takes the first result when none is selected
HandleKeyDownEnterFirst(b, key) ==
  IF ~b.isOpen \/ b.results = <<>> THEN b
  ELSE CASE key = "ArrowDown" ->
              [b EXCEPT !.selectedIndex = Min(@ + 1, Len(b.results) - 1)]
         [] key = "ArrowUp" ->
              [b EXCEPT !.selectedIndex = Max(@ - 1, -1)]
         [] key = "Enter" ->
              HandleClose([b EXCEPT !.pushed = Route(b.results[Max(b.selectedIndex, 0) + 1])])
         [] key = "Escape" -> HandleClose(b)

\* handleKeyDown on the state of the last render
HandleKeyDown(b, key) ==
  IF ~b.isOpen \/ b.results = <<>> THEN b
  ELSE CASE key = "ArrowDown" ->
              [b EXCEPT !.selectedIndex = Min(@ + 1, Len(b.results) - 1)]
         [] key = "ArrowUp" ->
              [b EXCEPT !.selectedIndex = Max(@ - 1, -1)]
         [] key = "Enter" ->
              IF b.selectedIndex >= 0 /\ b.selectedIndex + 1 \in DOMAIN b.results
              THEN HandleClose([b EXCEPT !.pushed = Route(b.results[b.selectedIndex + 1])])
              ELSE b
         [] key = "Escape" -> HandleClose(b)

\* the two search boxes
Components == {"SearchBox", "SimpleSearch"}

\* a step of the box: its new state, and the name of the step
BoxStep(name, b) ==
  /\ box.component \in Components
  /\ b.nextTimer <= MaxTimers + 1
  /\ box' = b
  /\ op' = name
  /\ UNCHANGED <<analytics, items, manager, arg, ret, prev>>

\* onChange of the input: setQuery(e.target.value)
ChangeQuery(q) ==
  /\ q # box.query
  /\ BoxStep("change", SetQuery(Quiet(box), q))

\* the parent renders the box with another guides prop
ChangeGuides(g) ==
  /\ g # box.guides
  /\ BoxStep("guides", Effect(Quiet(box), box.query, g))

\* a pending timeout expires and its callback runs
TimerFires(t) ==
  /\ t \in box.pending
  /\ BoxStep("timer", Callback([Quiet(box) EXCEPT !.pending = @ \ {t}], t.query, t.guides))

\* onKeyDown of the input
KeyDown(key) == BoxStep(key, HandleKeyDown(Quiet(box), key))

\* onFocus of the input
Focus ==
  BoxStep("focus", IF Len(box.query) >= 2 THEN [Quiet(box) EXCEPT !.isOpen = TRUE] ELSE Quiet(box))

\* mousedown outside the box
ClickOutside == BoxStep("clickOutside", [Quiet(box) EXCEPT !.isOpen = FALSE])

\* the clear button, shown while the query is not empty
ClickClear ==
  /\ box.query # <<>>
  /\ BoxStep("clear", HandleClose(Quiet(box)))

\* the "Try Again" button of the error block of SearchBox
ClickRetry ==
  /\ box.component = "SearchBox"
  /\ box.isOpen /\ box.results = <<>> /\ box.searchError # NoError
  /\ BoxStep("retry", SetQuery([Quiet(box) EXCEPT !.searchError = NoError], <<>>))

Keys == {"ArrowDown", "ArrowUp", "Enter", "Escape"}

InitBox ==
  /\ items = <<>>
  /\ arg = <<>>
  /\ Constructed
  /\ analytics = NewAnalytics
  /\ \E component \in Components, g \in BoxCatalogs \cup {Null} :
       box = Mounted(component, g)

NextBox ==
  \/ \E q \in BoxQueries : ChangeQuery(q)
  \/ \E g \in BoxCatalogs \cup {Null} : ChangeGuides(g)
  \/ \E t \in box.pending : TimerFires(t)
  \/ \E key \in Keys : KeyDown(key)
  \/ Focus
  \/ ClickOutside
  \/ ClickClear
  \/ ClickRetry

\* one search box from its mount on
SpecBox == InitBox /\ [][NextBox]_vars

\* the browser runs the callback of a timeout that stays pending: setTimeout
\* with 150 ms (SearchBox) or 200 ms (SimpleSearch)
SpecBoxLive == SpecBox /\ WF_vars(\E t \in box.pending : TimerFires(t))

\* no box is mounted: the session is one of a SearchManager
Unmounted == [Mounted("none", <<>>) EXCEPT !.pending = {}]

\* what handleKeyDown of the manager did with its callbacks: the arguments
\* of its calls of onSelect and of this.onSearchChange
KeyCalls(key, onSelect, onSearchChange) ==
  [key |-> key, onSelect |-> onSelect, onSearchChange |-> onSearchChange]

\* searchManager.handleKeyDown(event, results, onSelect), where results is the
\* list the last search returned (ret stays that list)
ManagerKeyDown(key) ==
  /\ box = Unmounted
  /\ op # "init"
  /\ op' = key
  /\ selectedIndex' =
       CASE key = "ArrowDown" -> Min(selectedIndex + 1, Len(ret) - 1)
         [] key = "ArrowUp" -> Max(selectedIndex - 1, -1)
         [] key = "Enter" -> selectedIndex
         [] key = "Escape" -> -1
  /\ arg' =
       CASE key = "Enter" /\ selectedIndex >= 0 /\ selectedIndex + 1 \in DOMAIN ret ->
              KeyCalls(key, <<ret[selectedIndex + 1]>>, <<>>)
         [] key = "Escape" -> KeyCalls(key, <<>>, << <<>> >>)
         [] OTHER -> KeyCalls(key, <<>>, <<>>)
  /\ UNCHANGED <<analytics, box, items, searchData, searchIndex, currentQuery, ret, prev>>

\* the search of a manager session; ret is the list the consumer shows
SessionSearch(q) ==
  /\ box = Unmounted
  /\ searchData = items
  /\ currentQuery' = q
  /\ selectedIndex' = -1
  /\ op' = "managerSearch"
  /\ arg' = [query |-> q]
  /\ ret' = ManagerResults(searchIndex, q)
  /\ UNCHANGED <<analytics, box, items, searchData, searchIndex, prev>>

InitSession ==
  \/ InitBox
  \/ /\ items \in BoxCatalogs
     /\ arg = <<>>
     /\ Constructed
     /\ analytics = NewAnalytics
     /\ box = Unmounted

\* searchManager.setData(items), once, before the searches
SessionSetData ==
  /\ box = Unmounted
  /\ op = "init"
  /\ SetData(items)

NextSession ==
  \/ NextBox
  \/ SessionSetData
  \/ \E q \in ManagerQueries : SessionSearch(q)
  \/ \E key \in Keys : ManagerKeyDown(key)

\* one search session: of a search box, or of a SearchManager whose
\* consumer hands the keys and the list of the last search to handleKeyDown
SpecSession == InitSession /\ [][NextSession]_vars

----------------------------------------------------------------------------
(* Catalog entries that lack a textual field *)

\* the value of a field the entry does not have
Undefined == <<"undefined">>

RequiredFields == {"name", "displayName", "description", "category"}

\* calculateSearchScore throws a TypeError: item.name.toLowerCase() on
\* undefined, or item.displayName.toLowerCase() when the name does not hold
\* the query
ScoreThrows(item, query) ==
  \/ item.name = Undefined
  \/ /\ item.displayName = Undefined
     /\ ~Includes(ToLowerCase(item.name), ToLowerCase(query))

\* elsewhere in search an undefined field is skipped like an empty one:
\* filter(Boolean) in calculateSearchScore, if (!value) continue in the loop
\* over the keys
Falsy(item) ==
  [f \in DOMAIN item |->
     IF f \in RequiredFields /\ item[f] = Undefined THEN <<>> ELSE item[f]]

\* FuzzySearch.search(items, query) on a catalog that may hold such entries:
\* the exception leaves search, or the results
SearchOrThrow(list, query) ==
  IF Len(query) >= 2 /\ \E i \in 1..Len(list) : ScoreThrows(list[i], query)
  THEN [thrown |-> TRUE, results |-> <<>>]
  ELSE [thrown |-> FALSE,
        results |-> Search([i \in 1..Len(list) |-> Falsy(list[i])], query)]

\* the catalogs with one entry that lacks one of the fields
MalformedCatalogs ==
  UNION {{[CatalogOf(order) EXCEPT ![k][f] = Undefined] :
            k \in 1..Len(order), f \in RequiredFields} :
         order \in UNION {Orders(n) : n \in 1..MaxCatalog}}

InitMalformed ==
  /\ items \in MalformedCatalogs
  /\ arg = <<>>
  /\ Constructed
  /\ analytics = NewAnalytics
  /\ box = Mounted("SearchBox", <<>>)

\* new FuzzySearch().search(items, q) on the catalog drawn
DoSearchMalformed(q) ==
  /\ op = "init"
  /\ op' = "searchMalformed"
  /\ arg' = [query |-> q]
  /\ ret' = SearchOrThrow(items, q)
  /\ UNCHANGED <<analytics, box, items, manager, prev>>

NextMalformed == \E q \in {QNginx, QWeb, QProxy} : DoSearchMalformed(q)

\* one search over a catalog with a malformed entry
SpecMalformed == InitMalformed /\ [][NextMalformed]_vars

----------------------------------------------------------------------------
(* Properties *)

SameText(a, b) == ToLowerCase(a) = ToLowerCase(b)

\* the 1-based positions of the entries of the catalog whose displayName,
\* lowercased, is the query lowercased
ExactDisplayName(list, query) ==
  {i \in 1..Len(list) : SameText(list[i].displayName, query)}

SortedByScore(results) ==
  \A i \in 1..(Len(results) - 1) : RLeq(results[i + 1].score, results[i].score)

SameScore(a, b) == RLeq(a.score, b.score) /\ RLeq(b.score, a.score)

\* the characters of the inputs in the order of their code units
CodeOrder ==
  <<" ", "-", "/">> \o <<"0","1","2","3","4","5","6","7","8","9">> \o UpperCase
    \o <<"_">> \o LowerCase

CodeOf(c) == CHOOSE k \in 1..Len(CodeOrder) : CodeOrder[k] = c

\* a <= b in the order of strings by code units
LexLeq(a, b) ==
  \/ \E k \in 1..Len(a) :
       /\ k <= Len(b)
       /\ SubSeq(a, 1, k - 1) = SubSeq(b, 1, k - 1)
       /\ CodeOf(a[k]) < CodeOf(b[k])
  \/ Len(a) <= Len(b) /\ SubSeq(b, 1, Len(a)) = a

\* C1: for a query of at least 2 characters, the entry whose displayName
\* lowercased equals the query lowercased (taken here only when there is
\* exactly one such entry) is the first result of search(q).
ExactDisplayNameFirst ==
  (op = "search" /\ Len(arg.query) >= 2) =>
    \A i \in 1..Len(items) :
      ExactDisplayName(items, arg.query) = {i} =>
        ret # <<>> /\ ret[1].item = items[i]

\* C2: the list search(q) returns (FuzzySearch.search, FuzzySearch.searchIndex
\* and SearchManager.search after the truncation to maxResults) is sorted by
\* non-increasing score.
ResultsSortedByScore ==
  /\ op \in {"search", "searchIndex"} => SortedByScore(ret)
  /\ op = "searchIndex" => SortedByScore(ManagerResults(CreateIndex(items), arg.query))

\* C2 witness: a search has put an entry with a strictly higher score in
\* front of an entry that stands before it in the catalog.
ResultsSortedByScoreWitness ==
  /\ op = "search"
  /\ Len(arg.query) >= 2
  /\ \E i \in 1..(Len(ret) - 1) :
       /\ RLess(ret[i + 1].score, ret[i].score)
       /\ ret[i + 1].refIndex < ret[i].refIndex

LevenshteinSymmetric ==
  op = "levenshteinDistance" =>
    /\ ret = LevenshteinDistance(arg.str2, arg.str1)
    /\ LevenshteinDistance(arg.str1, arg.str1) = 0
    /\ LevenshteinDistance(arg.str2, arg.str2) = 0

\* C5 witness: the distance of two strings of different lengths, neither a
\* prefix of the other, has been computed.
LevenshteinSymmetricWitness ==
  /\ op = "levenshteinDistance"
  /\ Len(arg.str1) > Len(arg.str2)
  /\ arg.str2 # <<>>
  /\ ~StartsWith(arg.str1, arg.str2)
  /\ ret >= 2

Overlap(a, b) == a.start < b.end /\ b.start < a.end

\* the text highlightedName is built from: displayName || name
NameText(item) == IF item.displayName # <<>> THEN item.displayName ELSE item.name

\* C7: every span used to build highlightedName lies within displayName,
\* every span used to build highlightedDescription lies within description
\* (0 <= start < end <= length), and no two spans of one list overlap.
HighlightSpansWithinField ==
  op = "managerSearch" =>
    \A r \in 1..Len(ret) :
      /\ \A m \in 1..Len(ret[r].matches) :
           /\ 0 <= ret[r].matches[m].start
           /\ ret[r].matches[m].start < ret[r].matches[m].end
           /\ ret[r].matches[m].end <= Len(NameText(ret[r].item))
           /\ ret[r].matches[m].end <= Len(ret[r].item.description)
      /\ \A m, n \in 1..Len(ret[r].matches) :
           m # n => ~Overlap(ret[r].matches[m], ret[r].matches[n])

\* C8: the query "nginix" matched against the field "nginx" reports a match
\* (the edit distance 1 is within floor(0.3 * 6) = 1), and a search for
\* "nginix" returns the guide named nginx.
TypoNginixFindsNginx ==
  /\ LevenshteinDistance(QNginix, QNginx) <= (3 * Len(QNginix)) \div 10
  /\ (op = "fuzzyMatch" /\ arg.query = QNginix /\ arg.text = QNginx) =>
       RLess(Zero, ret.score) /\ ret.matches # <<>>
  /\ (op = "search" /\ arg.query = QNginix) =>
       \A i \in 1..Len(items) :
         items[i].name = QNginx => \E r \in 1..Len(ret) : ret[r].item = items[i]

\* C9 as stated: the query "ngx" matched against the field "nginx" reports
\* no match.
NgxNoMatch ==
  (op = "fuzzyMatch" /\ arg.query = QNgx /\ arg.text = QNginx) =>
    ret.score = Zero /\ ret.matches = <<>>

\* C9 as amended: the query "ngx" matched against the field "nginx" reports a
\* match: it is no substring and matches at no word boundary, and the
\* subsequence tier consumes n, g, x in order at the positions 0, 1 and 4,
\* which gives the spans [0, 2) and [4, 5) and the score 0.7.
NgxSubsequenceMatch ==
  (op = "fuzzyMatch" /\ arg.query = QNgx /\ arg.text = QNginx) =>
    /\ IndexOf(arg.text, arg.query) = -1
    /\ WordBoundaryMatches(arg.query, arg.text) = {}
    /\ ret.score = R(7, 10)
    /\ Len(ret.matches) = 2
    /\ ret.matches[1].start = 0 /\ ret.matches[1].end = 2
    /\ ret.matches[2].start = 4 /\ ret.matches[2].end = 5
    /\ \A m \in 1..2 : ret.matches[m].matchType = "character"

\* C9 witness: "ngx" has been matched against the field "nginx".
NgxSubsequenceMatchWitness ==
  op = "fuzzyMatch" /\ arg.query = QNgx /\ arg.text = QNginx

QKubernetes == <<"k","u","b","e","r","n","e","t","e","s">>

\* the literal query occurs in none of the texts of the entry
NowhereIn(item, query) ==
  /\ \A f \in {"name", "displayName", "description", "category", "language"} :
       ~Includes(ToLowerCase(item[f]), ToLowerCase(query))
  /\ \A t \in 1..Len(item.topics) : ~Includes(ToLowerCase(item.topics[t]), ToLowerCase(query))

\* C10: the query "k8s" returns a catalog entry named kubernetes although
\* "k8s" occurs nowhere in its name, displayName, description, category,
\* language or topics.
K8sFindsKubernetes ==
  (op \in {"search", "searchIndex"} /\ arg.query = QK8s) =>
    \A i \in 1..Len(items) :
      (items[i].name = QKubernetes /\ NowhereIn(items[i], QK8s)) =>
        \E r \in 1..Len(ret) : ret[r].item.slug = items[i].slug

\* C10 witness: a search through the index for "k8s" has returned the entry
\* named kubernetes, which does not hold "k8s".
K8sFindsKubernetesWitness ==
  /\ op = "searchIndex"
  /\ arg.query = QK8s
  /\ \E r \in 1..Len(ret) :
       ret[r].item.name = QKubernetes /\ NowhereIn(ret[r].item, QK8s)

\* C11: the query "kubectl", a key of the thesaurus with the alias
\* kubernetes, returns through SearchManager.search (the index prefilter
\* followed by the scorer) the entry named kubernetes although "kubectl"
\* occurs nowhere in its text.
KubectlFindsKubernetes ==
  /\ Contains(DirectAliases(QKubectl), QKubernetes)
  /\ (op = "searchIndex" /\ arg.query = QKubectl) =>
       \A i \in 1..Len(items) :
         (items[i].name = QKubernetes /\ NowhereIn(items[i], QKubectl)) =>
           /\ \E r \in 1..Len(ret) : ret[r].item.slug = items[i].slug
           /\ \E r \in 1..Len(ManagerResults(CreateIndex(items), arg.query)) :
                ManagerResults(CreateIndex(items), arg.query)[r].item.slug = items[i].slug

QNagios == <<"n","a","g","i","o","s">>

\* the 1-based positions of the results for the entry of that name
ResultsNamed(results, name) == {r \in 1..Len(results) : results[r].item.name = name}

\* C12: with the entries nginx and nagios in the catalog, in either order,
\* the query "ngin" puts nginx in the results, nagios is absent or has a
\* strictly lower score, and nginx is the first result when the catalog holds
\* these two entries only.
NginAboveNagios ==
  (/\ op \in {"search", "searchIndex"}
   /\ arg.query = QNgin
   /\ \E i, j \in 1..Len(items) : items[i].name = QNginx /\ items[j].name = QNagios) =>
    /\ ResultsNamed(ret, QNginx) # {}
    /\ \A r \in ResultsNamed(ret, QNginx), s \in ResultsNamed(ret, QNagios) :
         r < s /\ RLess(ret[s].score, ret[r].score)
    /\ Len(items) = 2 => ret[1].item.name = QNginx

\* C12 witness: nagios stands before nginx in the catalog, and the search for
\* "ngin" has returned nginx first.
NginAboveNagiosWitness ==
  /\ op = "search"
  /\ arg.query = QNgin
  /\ Len(items) = 2
  /\ items[1].name = QNagios
  /\ items[2].name = QNginx
  /\ ret # <<>>
  /\ ret[1].item.name = QNginx

\* C13: a query shorter than 2 characters yields no results and no scoring:
\* the timeout callback of a search box that runs for such a query leaves
\* results empty and hands no guide to the filter, and SearchManager.search
\* on the guides of the box returns [] for the empty and the one-letter query
\* (FuzzySearch.searchIndex is not reached: it would return entries).
ShortQueryYieldsNothing ==
  /\ (op = "timer" /\ Len(box.query) < 2) => box.results = <<>> /\ box.scored = 0
  /\ box.guides # Null =>
       \A q \in {QEmpty, QOneChar} : ManagerResults(CreateIndex(box.guides), q) = <<>>

\* the pass for "n" has run over guides that hold "n", and the manager's
\* index search itself would return entries
ShortQueryYieldsNothingWitness ==
  /\ op = "timer" /\ box.query = QOneChar /\ box.results = <<>>
  /\ box.guides \in BoxCatalogs
  /\ BoxSearch(box.guides, QOneChar) # <<>>
  /\ SearchIndex(CreateIndex(box.guides), QOneChar) # <<>>

\* C14: debounce cancel-and-restart: at most one timeout is pending before and
\* after every step; a step that changes the query leaves none of the
\* timeouts that were pending before it (the cleanup cleared it before the
\* new one was set); and a timeout whose callback runs was set for the query
\* that is current when it runs.
DebounceRestart ==
  [][/\ Cardinality(box.pending) <= 1
     /\ Cardinality(box'.pending) <= 1
     /\ box'.query # box.query =>
          /\ box.pending \cap box'.pending = {}
          /\ \E t \in box'.pending : t.id = box'.timer /\ t.query = box'.query
     /\ \A t \in box.pending :
          (op' = "timer" /\ t \notin box'.pending) => t.query = box.query]_vars

\* a change of the query has just cleared the timeout that was pending for
\* the text before it and set the one for the new text
DebounceRestartWitness ==
  /\ op = "change" /\ box.cleared # {} /\ box.timer \notin box.cleared
  /\ \E t \in box.pending : t.id = box.timer /\ t.query = box.query /\ Len(t.query) >= 2

\* the ranked, truncated result list of the query and guides of the box
Expected(b) ==
  IF Len(b.query) < 2 THEN <<>>
  ELSE IF b.component = "SearchBox" THEN BoxSearch(b.guides, b.query)
  ELSE SimpleSearch(b.guides, Trim(ToLowerCase(b.query)))

\* the pass of the last timeout has run, and unless it failed (guides null
\* and a query of 2 characters or more) results is the list of the query
Settled ==
  /\ box.pending = {}
  /\ op = "timer"
  /\ (box.guides # Null \/ Len(box.query) < 2) => box.results = Expected(box)

\* C15: liveness of the debounce: a pending timeout leads to a state where
\* the last timeout set has fired and its pass has run, and then, if the pass
\* did not fail, results is the ranked list of the current query cut to 8, or
\* empty when the query is shorter than 2 characters.
DebounceSettles == (box.pending # {}) ~> Settled

\* a query was typed after the mount, its pass has run and found guides
DebounceSettlesWitness ==
  /\ Settled /\ box.timer >= 2 /\ Len(box.query) >= 2
  /\ box.results # <<>> /\ box.results = Expected(box)

\* C16: in every state of a session selectedIndex is an integer from -1 to
\* len(results) - 1, for the boxes (results of the box) and for the manager
\* (the list its last search returned); it is -1 when the list is empty.
SelectedIndexInRange ==
  /\ box.selectedIndex \in -1..(Len(box.results) - 1)
  /\ box = Unmounted => selectedIndex \in -1..(Len(ret) - 1)

\* ArrowDown has reached the last entry of a list of several, in a box
SelectedIndexInRangeWitness ==
  /\ op = "ArrowDown" /\ Len(box.results) >= 2
  /\ box.selectedIndex = Len(box.results) - 1

\* C17: Enter calls out (router.push of a box, onSelect of the manager) only
\* when selectedIndex >= 0 and results[selectedIndex] exists, and then with
\* that entry (its route /category/slug/ for a box); with selectedIndex = -1
\* it calls nothing and leaves query, results and selectedIndex as they were.
EnterSelects ==
  [][op' = "Enter" =>
       IF box = Unmounted
       THEN /\ arg'.onSelect # <<>> =>
                 /\ selectedIndex >= 0 /\ selectedIndex + 1 \in DOMAIN ret
                 /\ arg'.onSelect = <<ret[selectedIndex + 1]>>
            /\ selectedIndex = -1 =>
                 /\ arg'.onSelect = <<>> /\ arg'.onSearchChange = <<>>
                 /\ UNCHANGED <<currentQuery, ret, selectedIndex>>
       ELSE /\ box'.pushed # NoRoute =>
                 /\ box.selectedIndex >= 0 /\ box.selectedIndex + 1 \in DOMAIN box.results
                 /\ box'.pushed = Route(box.results[box.selectedIndex + 1])
            /\ box.selectedIndex = -1 =>
                 /\ box'.pushed = NoRoute
                 /\ box'.query = box.query /\ box'.results = box.results
                 /\ box'.selectedIndex = -1]_vars

\* Enter on the second result of a box has pushed its route
EnterSelectsWitness ==
  /\ op = "Enter" /\ box.component \in Components
  /\ Len(box.results) >= 2 /\ box.pushed = Route(box.results[2])

\* the dropdown of a box is open and the pass of the last timeout has run
Presenting == box.component \in Components /\ box.isOpen /\ box.pending = {}

\* C18: Escape while the dropdown is open after a completed pass, with or
\* without results, clears the query, sets selectedIndex to -1 and closes the
\* dropdown (the manager sets selectedIndex to -1 and asks its consumer for
\* the empty query), and the timeout it sets is the one for the empty query,
\* whose pass empties results.
EscapeDismisses ==
  [][op' = "Escape" =>
       /\ Presenting =>
            /\ box'.query = <<>> /\ box'.selectedIndex = -1 /\ ~box'.isOpen
            /\ \A t \in box'.pending : t.query = <<>>
       /\ box = Unmounted =>
            selectedIndex' = -1 /\ arg'.onSearchChange = << <<>> >>]_vars

\* the pass of the last step failed as a whole: guides.filter on null
PassFailed == op = "timer" /\ box.guides = Null /\ Len(box.query) >= 2

\* C19: when a pass fails as a whole, the failure does not leave the timeout
\* callback, results becomes empty and the error state is set; and while the
\* error state is set no list of an earlier query is shown in the dropdown.
FailureShowsError ==
  /\ PassFailed =>
       /\ ~box.uncaught
       /\ box.results = <<>>
       /\ box.searchError # NoError
  /\ box.searchError # NoError => ~(box.isOpen /\ box.results # <<>>)

\* the entries that have all their textual fields
WellFormed(list) ==
  SelectSeq(list, LAMBDA g : \A f \in RequiredFields : g[f] # Undefined)

\* the slugs and scores of the results whose entry is one of list
RankingOf(results, list) ==
  [i \in 1..Len(SelectSeq(results, LAMBDA r : \E k \in 1..Len(list) : list[k].slug = r.item.slug)) |->
     [slug |-> SelectSeq(results, LAMBDA r : \E k \in 1..Len(list) : list[k].slug = r.item.slug)[i].item.slug,
      score |-> SelectSeq(results, LAMBDA r : \E k \in 1..Len(list) : list[k].slug = r.item.slug)[i].score]]

\* C20: an entry that lacks name, displayName, description or category does
\* not abort the pass: no exception leaves search, and the well-formed
\* entries are scored and ranked as they are in the catalog without it.
MalformedEntryTolerated ==
  op = "searchMalformed" =>
    /\ ~ret.thrown
    /\ RankingOf(ret.results, WellFormed(items))
         = RankingOf(Search(WellFormed(items), arg.query), WellFormed(items))

\* the full ranked list of a box before .slice(0, 8)
Ranked(b) ==
  IF b.component = "SearchBox"
  THEN ItemsOf(SortByScore(BoxScored(
         SelectSeq(b.guides, LAMBDA guide : BoxFilter(guide, b.query)), b.query)))
  ELSE ItemsOf(SortByScore(SimpleScored(
         SelectSeq(b.guides, LAMBDA guide : SimpleFilter(guide, Trim(ToLowerCase(b.query)))),
         Trim(ToLowerCase(b.query)))))

IsPrefix(a, b) == Len(a) <= Len(b) /\ a = SubSeq(b, 1, Len(a))

\* C21: after every successful pass the presented list has at most 8 entries
\* (maxResults), is a prefix of the full ranked list, and selectedIndex is
\* -1: for the timeout callback of the boxes and for SearchManager.search.
PresentedListTruncated ==
  /\ (op = "timer" /\ box.guides # Null /\ Len(box.query) >= 2) =>
       /\ Len(box.results) <= 8
       /\ IsPrefix(box.results, Ranked(box))
       /\ box.selectedIndex = -1
  /\ (box = Unmounted /\ op = "managerSearch" /\ Len(arg.query) >= minQueryLength) =>
       /\ Len(ret) <= maxResults
       /\ IsPrefix(ItemsOf(ret), ItemsOf(SearchIndex(searchIndex, arg.query)))
       /\ selectedIndex = -1

\* a pass of a box has cut a ranked list of 9 guides to 8
PresentedListTruncatedWitness ==
  /\ op = "timer" /\ box.guides # Null /\ Len(box.query) >= 2
  /\ Len(box.results) = 8 /\ Len(Ranked(box)) = 9

\* the elements of a sequence
Elements(seq) == {seq[i] : i \in 1..Len(seq)}

\* the keys of SEARCH_KEYWORDS that hold the term or are held by it
PartialKeys(t) ==
  {SEARCH_KEYWORDS[i].keyword : i \in {j \in 1..Len(SEARCH_KEYWORDS) :
     \/ Includes(SEARCH_KEYWORDS[j].keyword, t)
     \/ Includes(t, SEARCH_KEYWORDS[j].keyword)}}

\* the term, its declared aliases, and for a term longer than 3 characters
\* the aliases of the keys of PartialKeys
TermAndAliases(t) ==
  {t} \cup Elements(DirectAliases(t))
      \cup (IF Len(t) > 3
            THEN UNION {Elements(AliasesIn(SEARCH_KEYWORDS, k)) : k \in PartialKeys(t)}
            ELSE {})

DirectScore(item, key, normalizedQuery) ==
  FuzzyMatch(normalizedQuery, ToLowerCase(GetValue(item, key))).score

RECURSIVE MaxOver(_)
\* the greatest of a non-empty finite set of scores
MaxOver(scores) ==
  IF Cardinality(scores) = 1 THEN CHOOSE s \in scores : TRUE
  ELSE RMax(CHOOSE s \in scores : TRUE,
            MaxOver(scores \ {CHOOSE s \in scores : TRUE}))

\* the contributions a field offers: its direct match and 0.8 times the match
\* of each expanded term
Contributions(item, key, normalizedQuery, expandedTerms) ==
  {DirectScore(item, key, normalizedQuery)}
    \cup {RMul(FuzzyMatch(expandedTerms[j], ToLowerCase(GetValue(item, key))).score, R(8, 10)) :
            j \in 1..Len(expandedTerms)}

\* the fields of item that FuzzySearch.search looks at
FilledKeys(item) == {k \in 1..Len(keys) : GetValue(item, keys[k]) # <<>>}

\* the best contribution over the fields of item
BestContribution(item, normalizedQuery, expandedTerms) ==
  MaxOver({Zero} \cup UNION {Contributions(item, keys[k], normalizedQuery, expandedTerms) :
                               k \in FilledKeys(item)})

\* the query of a search that went through the scoring loop
Scored23 == op = "search" /\ Len(arg.query) >= 2

\* C23: the fuzzy score kept for an entry is the greatest contribution of its
\* fields, so it is never below the direct match of the query on any field
BestFuzzyScoreIsMaximum ==
  Scored23 =>
    \A r \in 1..Len(ret) :
      /\ ret[r].fuzzyScore.n * BestContribution(ret[r].item, Trim(ToLowerCase(arg.query)),
                                  ExpandSearchQuery(Trim(ToLowerCase(arg.query)))).d
           = BestContribution(ret[r].item, Trim(ToLowerCase(arg.query)),
                                  ExpandSearchQuery(Trim(ToLowerCase(arg.query)))).n * ret[r].fuzzyScore.d
      /\ \A k \in FilledKeys(ret[r].item) :
           RLeq(DirectScore(ret[r].item, keys[k], Trim(ToLowerCase(arg.query))), ret[r].fuzzyScore)

\* C24: a query of two characters that is not a substring of the field is
\* reported as no match by fuzzyMatch
TwoCharacterQueryNeedsSubstring ==
  (op = "fuzzyMatch" /\ Len(arg.query) = 2 /\ IndexOf(arg.text, arg.query) = -1)
    => ret = NoMatch

RECURSIVE IsSubsequence(_, _)
\* the characters of query occur in text in order
IsSubsequence(query, text) ==
  IF query = <<>> THEN TRUE
  ELSE IF text = <<>> THEN FALSE
  ELSE IF Head(query) = Head(text) THEN IsSubsequence(Tail(query), Tail(text))
  ELSE IsSubsequence(query, Tail(text))

RECURSIVE SpanTotal(_)
\* the total length of the spans
SpanTotal(matches) ==
  IF matches = <<>> THEN 0
  ELSE (Head(matches).end - Head(matches).start) + SpanTotal(Tail(matches))

\* the spans are sorted, pairwise disjoint and not adjacent
SpansApart(matches) ==
  /\ \A m \in 1..Len(matches) : matches[m].start < matches[m].end
  /\ \A m \in 1..(Len(matches) - 1) : matches[m].end < matches[m + 1].start

\* what C25 says of one call of fuzzyCharacterMatch
AllOrNothing ==
  /\ IsSubsequence(arg.query, arg.text) <=> (RLess(Zero, ret.score) /\ ret.matches # <<>>)
  /\ ~IsSubsequence(arg.query, arg.text) => ret = NoMatch
  /\ IsSubsequence(arg.query, arg.text) =>
       SpansApart(ret.matches) /\ SpanTotal(ret.matches) = Len(arg.query)

\* C25 as stated: every call of fuzzyCharacterMatch is all or nothing
CharacterMatchAllOrNothing == op = "fuzzyCharacterMatch" => AllOrNothing

\* C25: every call of fuzzyCharacterMatch with a query that is not empty is
\* all or nothing: a positive score and spans that are apart and as long as
\* the query when the query is a subsequence of the field, no match otherwise
NonEmptyCharacterMatchAllOrNothing ==
  (op = "fuzzyCharacterMatch" /\ arg.query # <<>>) => AllOrNothing

\* a query with a gap matched a field in two spans
NonEmptyCharacterMatchAllOrNothingWitness ==
  /\ op = "fuzzyCharacterMatch"
  /\ arg.query # <<>>
  /\ IsSubsequence(arg.query, arg.text)
  /\ Len(ret.matches) = 2

-----------------------------------------------------------------------------
(* The three score functions on two entries *)

\* the star counts the two entries are given
StarCounts == {0, 5, 10, 11, 50}

\* a guide whose description names the language of another
Traefik ==
  [name |-> <<"t","r","a","e","f","i","k">>,
   displayName |-> <<"T","r","a","e","f","i","k">>,
   description |-> <<"p","r","o","x","y"," ","w","r","i","t","t","e","n"," ","i","n"," ","g","o">>,
   category |-> <<"w","e","b","-","s","e","r","v","e","r">>,
   language |-> <<>>,
   topics |-> <<>>,
   stars |-> 0,
   slug |-> <<"t","r","a","e","f","i","k">>]

QGo == <<"g","o">>

ScoreQueries == {QNginx, QProxy, QWeb, QGo}

Scorers == {"calculateSearchScore", "getSimpleScore", "calculateScore"}

\* the score the scorer gives guide for the query q: calculateSearchScore as
\* FuzzySearch.search calls it, getSimpleScore as the SearchBox effect calls
\* it, calculateScore as the SimpleSearch effect calls it
ScoreBy(scorer, guide, q) ==
  IF scorer = "calculateSearchScore"
  THEN CalculateSearchScore(guide, q, ExpandSearchQuery(Trim(ToLowerCase(q))))
  ELSE IF scorer = "getSimpleScore"
  THEN R(GetSimpleScore(guide, q), 1)
  ELSE R(CalculateScore(guide, Trim(ToLowerCase(q))), 1)

\* two different guides, each with a star count
InitStars ==
  /\ \E a \in 1..Len(Pool \o <<Traefik>>), b \in 1..Len(Pool \o <<Traefik>>),
        sa \in StarCounts, sb \in StarCounts :
       /\ a # b
       /\ items = <<[(Pool \o <<Traefik>>)[a] EXCEPT !.stars = sa],
                    [(Pool \o <<Traefik>>)[b] EXCEPT !.stars = sb]>>
  /\ arg = <<>>
  /\ Constructed
  /\ analytics = NewAnalytics
  /\ box = Mounted("SearchBox", <<>>)

\* the scorer on both guides, with their stars and with no stars
DoScore(scorer, q) ==
  /\ op = "init"
  /\ op' = "score"
  /\ arg' = [scorer |-> scorer, query |-> q]
  /\ ret' = [i \in 1..2 |->
               [full |-> ScoreBy(scorer, items[i], q),
                text |-> ScoreBy(scorer, [items[i] EXCEPT !.stars = 0], q)]]
  /\ UNCHANGED <<analytics, box, items, manager, prev>>

NextStars == \E scorer \in Scorers, q \in ScoreQueries : DoScore(scorer, q)

SpecStars == InitStars /\ [][NextStars]_vars

\* C26: the guide with the strictly greater score without stars has the
\* strictly greater score with stars, and stars never lower a score
StarsNeverOvercomeText ==
  op = "score" =>
    /\ \A i \in 1..2, j \in 1..2 :
         RLess(ret[j].text, ret[i].text) => RLess(ret[j].full, ret[i].full)
    /\ \A i \in 1..2 : RLeq(ret[i].text, ret[i].full)

-----------------------------------------------------------------------------
(* SearchAnalytics *)

\* the number of trackSearch calls of a session
MaxTracks == 102

\* the number of records trackSearch keeps
keptSearches == 100

\* a plausible slip: slice(0, n), the first n records
SliceFirst(seq, n) == SubSeq(seq, 1, IF Len(seq) < n THEN Len(seq) ELSE n)

\* array.slice(-n)
SliceLast(seq, n) == SubSeq(seq, IF Len(seq) < n THEN 1 ELSE Len(seq) - n + 1, Len(seq))

\* popularTerms after "if (query.length >= 2) {...}"
CountTerm(popularTerms, query) ==
  IF Len(query) >= 2
  THEN IF \E i \in 1..Len(popularTerms) : popularTerms[i].term = query
       THEN [i \in 1..Len(popularTerms) |->
               IF popularTerms[i].term = query
               THEN [popularTerms[i] EXCEPT !.count = @ + 1]
               ELSE popularTerms[i]]
       ELSE Append(popularTerms, [term |-> query, count |-> 1])
  ELSE popularTerms

\* trackSearch from this.searches.push(search) on
PushSearch(a, search) ==
  [searches |-> IF Len(a.searches) + 1 > keptSearches
                THEN SliceLast(Append(a.searches, search), keptSearches)
                ELSE Append(a.searches, search),
   popularTerms |-> CountTerm(a.popularTerms, search.query),
   tracked |-> Append(a.tracked, search)]

\* the number of records that satisfy test
CountOf(seq, test(_)) == Len(SelectSeq(seq, test))

RECURSIVE SumResults(_)
\* this.searches.reduce((sum, s) => sum + s.resultsCount, 0)
SumResults(seq) ==
  IF seq = <<>> THEN 0 ELSE Head(seq).resultsCount + SumResults(Tail(seq))

\* withResults / total and the like: 0 when total is 0
Rate(count, total) == IF total > 0 THEN R(count, total) ELSE Zero

\* SearchAnalytics.getSearchStats()
GetSearchStats(a) ==
  [totalSearches |-> Len(a.searches),
   successRate |-> Rate(CountOf(a.searches, LAMBDA s : s.resultsCount > 0), Len(a.searches)),
   clickRate |-> Rate(CountOf(a.searches, LAMBDA s : s.selectedResult # Null), Len(a.searches)),
   avgResultsPerSearch |-> Rate(SumResults(a.searches), Len(a.searches))]

\* what trackSearch is called with: a search without results, one with
\* results and no selection (selectedResult defaults to null), one with a
\* selected result
TrackArguments ==
  {[query |-> QOneChar, resultsCount |-> 0, selectedResult |-> Null],
   [query |-> QNginx, resultsCount |-> 3, selectedResult |-> Null],
   [query |-> QNginx, resultsCount |-> 3, selectedResult |-> <<Pool[1]>>]}

\* the arguments of call number k: the calls in the middle of a session are
\* all the same search
ArgumentsOfCall(k) ==
  IF k <= 2 \/ k >= keptSearches
  THEN TrackArguments
  ELSE {[query |-> QNginx, resultsCount |-> 3, selectedResult |-> Null]}

\* analytics.trackSearch(query, resultsCount, selectedResult); Date.now() is
\* the number of the call
TrackSearch(call) ==
  /\ Len(analytics.tracked) < MaxTracks
  /\ analytics' = PushSearch(analytics,
                    [query |-> call.query, resultsCount |-> call.resultsCount,
                     selectedResult |-> call.selectedResult,
                     timestamp |-> Len(analytics.tracked) + 1])
  /\ op' = "trackSearch"
  /\ arg' = call
  /\ ret' = <<>>
  /\ UNCHANGED <<box, items, manager, prev>>

\* analytics.getSearchStats()
SearchStats ==
  /\ op # "getSearchStats"
  /\ op' = "getSearchStats"
  /\ arg' = <<>>
  /\ ret' = GetSearchStats(analytics)
  /\ UNCHANGED <<analytics, box, items, manager, prev>>

InitAnalytics ==
  /\ items = <<>>
  /\ arg = <<>>
  /\ Constructed
  /\ analytics = NewAnalytics
  /\ box = Mounted("SearchBox", <<>>)

NextAnalytics ==
  \/ \E call \in ArgumentsOfCall(Len(analytics.tracked) + 1) : TrackSearch(call)
  \/ SearchStats

\* a session of one SearchAnalytics
SpecAnalytics == InitAnalytics /\ [][NextAnalytics]_vars

\* the last n elements of seq, or all of seq
LastOf(seq, n) ==
  [i \in 1..(IF Len(seq) < n THEN Len(seq) ELSE n) |->
     seq[Len(seq) - (IF Len(seq) < n THEN Len(seq) ELSE n) + i]]

\* the number of retained records with at least one result
Successes == Cardinality({i \in 1..Len(analytics.searches) : analytics.searches[i].resultsCount >= 1})

\* the number of retained records with a selection
Clicks == Cardinality({i \in 1..Len(analytics.searches) : analytics.searches[i].selectedResult # Null})

\* C27: searches holds the last min(n, 100) tracked records in their order,
\* and getSearchStats reports the fractions of them with a result and with a
\* selection, each in [0, 1] and 0 when searches is empty
AnalyticsKeepsRecent ==
  /\ Len(analytics.searches) <= 100
  /\ analytics.searches = LastOf(analytics.tracked, 100)
  /\ op = "getSearchStats" =>
       /\ ret.successRate.n * Len(analytics.searches) = Successes * ret.successRate.d
       /\ ret.clickRate.n * Len(analytics.searches) = Clicks * ret.clickRate.d
       /\ RLeq(Zero, ret.successRate) /\ RLeq(ret.successRate, R(1, 1))
       /\ RLeq(Zero, ret.clickRate) /\ RLeq(ret.clickRate, R(1, 1))
       /\ analytics.searches = <<>> => (ret.successRate.n = 0 /\ ret.clickRate.n = 0)

\* 102 searches were tracked, the two oldest were dropped, and the statistics
\* were read with some searches without results and some with a selection
AnalyticsKeepsRecentWitness ==
  /\ op = "getSearchStats"
  /\ Len(analytics.tracked) = 102
  /\ Len(analytics.searches) = 100
  /\ analytics.searches[1].timestamp = 3
  /\ analytics.tracked[1].resultsCount = 0
  /\ RLess(Zero, ret.clickRate)
  /\ RLess(ret.successRate, R(1, 1))

\* the results a and b are of the same entry and carry the same score
SameEntryAndScore(a, b) ==
  /\ a.item.slug = b.item.slug
  /\ a.score.n * b.score.d = b.score.n * a.score.d

\* C28: for a query of at least 2 characters searchIndex over the index of
\* the catalog returns the entries that search returns on the catalog, with
\* the same scores
PrefilterIsSound ==
  (op = "searchIndex" /\ Len(arg.query) >= 2) =>
    /\ \A r \in 1..Len(Search(items, arg.query)) :
         \E s \in 1..Len(ret) : SameEntryAndScore(Search(items, arg.query)[r], ret[s])
    /\ \A s \in 1..Len(ret) :
         \E r \in 1..Len(Search(items, arg.query)) :
           SameEntryAndScore(Search(items, arg.query)[r], ret[s])

\* C29: SearchManager.search returns nothing for a raw query whose trimmed
\* form is empty or shorter than minQueryLength
BlankQueryYieldsNothing ==
  (op = "managerSearch" /\ Len(Trim(arg.query)) < minQueryLength) => ret = <<>>

\* C30: when Enter navigates, the results of the box are the output of a
\* scoring pass for the query text of that moment
EnterActsOnCurrentResults ==
  [][(op' = "Enter" /\ box'.pushed # NoRoute) =>
       \E g \in BoxCatalogs : box.results = Expected([box EXCEPT !.guides = g])]_vars

====
